---------------------------- MODULE Spec2Model ----------------------------
(***************************************************************************)
(* A model of the Sparkling command line driver (src/spn.c): argument      *)
(* processing, file execution, the shebang handling of script files and    *)
(* the bytecode disassembler.                                              *)
(*                                                                         *)
(* C strings are sequences of one-character strings without the final NUL; *)
(* a pointer into a string is a 0-based offset, and NULL is -1.            *)
(***************************************************************************)
EXTENDS Integers, Sequences, FiniteSets, TLC

VARIABLES
    argv,       \* main's argument vector, argv[0] first (argc is its length)
    m,          \* frame of main: pc, args, pos, status, cmd
    rf,         \* frame of run_file: pc, fname, argv, status, kind, ran, vals
    rs,         \* frame of run_script_file: pc, argv, buf, bufst, src, loaded, vals, called, ret
    ra,         \* frame of run_args: pc, argv, args, i, status
    re,         \* frame of enter_repl: pc, args, session_no, status
    cf,         \* frame of compile_files: pc, argv, i, status
    df,         \* frame of disassemble_files: pc, argv, i, status
    da,         \* frame of dump_ast_of_files: pc, argv, i, status
    ctx_err,    \* the context's error kind: "none", "syntax", "semantic", "runtime", "generic"
    errout,     \* what was written to stderr, in order
    out,        \* what was written to stdout, in order
    failed,     \* whether an operation of the run has failed
    heap,       \* the resources made and released so far, and the last stack trace
    vm,         \* the virtual machine: local symbol table, globals, registers
    dis,        \* frame of disasm_bytecode, disasm_exec and disasm_symtab
    bc,         \* the words of the image that may be read again, by word index
    last        \* the instruction or symbol the disassembler processed last

cmdVars == <<argv, m, rf, rs, ra, re, cf, df, da, ctx_err, errout, out, failed, heap>>
drvVars == <<cmdVars, vm>>
disVars == <<dis, bc, last>>
vars == <<drvVars, disVars>>

-----------------------------------------------------------------------------
(* Bounds of the model *)

MaxText == 5     \* longest text of a script file, in characters
MaxName == 5     \* longest file name given to run_file alone, in characters
MaxArgs == 3     \* most arguments after argv[0]
MaxLines == 2    \* most lines read by the REPL before the end of input
MaxFrames == 2   \* most frames of a stack trace
MaxSyms == 2     \* most entries of a local symbol table
MaxRegs == 1     \* most registers of a frame

-----------------------------------------------------------------------------
(* Characters and C string primitives *)

LF == "LF"
CR == "CR"
NUL == "NUL"

TextChars == {"#", "!", LF, CR, "a"}

Texts == UNION {[1..n -> TextChars] : n \in 0..MaxText}

\* s[i] of a NUL-terminated C string, i a 0-based offset not past the NUL
CharAt(s, i) == IF i < Len(s) THEN s[i + 1] ELSE NUL

\* the text a char pointer at offset `off` of s denotes
StrFrom(s, off) == SubSeq(s, off + 1, Len(s))

Min(S) == CHOOSE x \in S : \A y \in S : x <= y

strchr(s, c) ==
    LET hits == {i \in 0..(Len(s) - 1) : s[i + 1] = c}
    IN  IF hits = {} THEN -1 ELSE Min(hits)

\* offset of the first occurrence of needle in haystack, or -1
strstr(haystack, needle) ==
    LET hits == {i \in 0..(Len(haystack) - Len(needle)) :
                    SubSeq(haystack, i + 1, i + Len(needle)) = needle}
    IN  IF hits = {} THEN -1 ELSE Min(hits)

RECURSIVE BitAnd(_, _)
BitAnd(a, b) ==
    IF a = 0 \/ b = 0 THEN 0
    ELSE (a % 2) * (b % 2) + 2 * BitAnd(a \div 2, b \div 2)

RECURSIVE BitOr(_, _)
BitOr(a, b) ==
    IF a = 0 THEN b
    ELSE IF b = 0 THEN a
    ELSE (IF a % 2 = 1 \/ b % 2 = 1 THEN 1 ELSE 0) + 2 * BitOr(a \div 2, b \div 2)

-----------------------------------------------------------------------------
(* Values of the C library and of the Sparkling API *)

EXIT_SUCCESS == 0
EXIT_FAILURE == 1

\* spn_ctx_callfunc, spn_ctx_execstring, spn_ctx_execobjfile: 0 on success,
\* non-zero on error
ApiErrs == {-1, 1}

\* kinds of error a failed load (parse, compile) leaves in the context
LoadErrKinds == {"syntax", "semantic"}

-----------------------------------------------------------------------------
(* run_script_file *)

RsIdle ==
    [pc |-> "idle", argv |-> <<>>, buf |-> <<>>, bufst |-> "unset", readst |-> "unset",
     src |-> <<>>,
     loaded |-> FALSE, vals |-> <<>>, called |-> FALSE, ret |-> 0]

\* the offset of `src' in buf, or -1 when the script is empty (no terminator
\* after the shebang) and nothing is compiled
ShebangSrc(buf) ==
    IF CharAt(buf, 0) = "#" /\ CharAt(buf, 1) = "!"
    THEN LET pn == strchr(buf, LF)
             pr == strchr(buf, CR)
         IN  IF pn = -1 /\ pr = -1 THEN -1
             ELSE IF pn = -1 THEN pr + 1
             ELSE IF pr = -1 THEN pn + 1
             ELSE IF pn < pr THEN pr + 1 ELSE pn + 1
    ELSE 0

\* the kinds of resource the driver makes: the context (spn_ctx_new), the text
\* buffer and the arguments array of run_script_file, the values of the script
\* arguments, the result value of an executed string or expression, the copy of
\* the first message of the REPL, the vector of a stack trace, the image buffer
\* of disassemble_files, the output file of compile_files, and the parser, the
\* text and the tree of dump_ast_of_files
Resources ==
    {"ctx", "buf", "vals", "argval", "val", "orig_errmsg", "bt", "image", "outfile",
     "parser", "src", "ast"}

\* nothing made, nothing released; `bt' is the vector spn_ctx_stacktrace
\* returned last
HeapIdle ==
    [made |-> [r \in Resources |-> 0], freed |-> [r \in Resources |-> 0], bt |-> <<>>]

\* n resources of kind r made (spn_ctx_new, malloc, fopen, a value returned)
make(h, r, n) == [h EXCEPT !.made[r] = @ + n]

\* n resources of kind r released (spn_ctx_free, free, fclose, spn_value_release)
release(h, r, n) == [h EXCEPT !.freed[r] = @ + n]

\* the names of the functions on the call stack, innermost first
CallChain == [i \in 1..MaxFrames |-> <<"fn", i - 1>>]

\* the vectors spn_ctx_stacktrace may return: the empty one and the one of all
\* MaxFrames frames
Backtraces == {SubSeq(CallChain, 1, n) : n \in {0, MaxFrames}}

\* the loop of print_stacktrace_if_needed from index i (0-based): the lines
\* "[i] in bt[i]" it prints
RECURSIVE print_frames(_, _)
print_frames(bt, i) ==
    IF i < Len(bt)
    THEN <<[line |-> "frame", i |-> i, name |-> bt[i + 1]]>> \o print_frames(bt, i + 1)
    ELSE <<>>

\* print_stacktrace_if_needed printing the frames from index 1
print_stacktrace_skipping(kind, bt) ==
    IF kind = "runtime"
    THEN <<[line |-> "Call stack:", i |-> 0, name |-> <<>>]>> \o print_frames(bt, 1)
    ELSE <<>>

\* print_stacktrace_if_needed: what it appends to stderr when the context's
\* error kind is `kind' and spn_ctx_stacktrace returns bt
print_stacktrace_if_needed(kind, bt) ==
    IF kind = "runtime"
    THEN <<[line |-> "Call stack:", i |-> 0, name |-> <<>>]>> \o print_frames(bt, 0)
    ELSE <<>>

\* print_stacktrace_if_needed: the vector it gets from spn_ctx_stacktrace and
\* frees
trace_heap(h, kind, bt) ==
    IF kind = "runtime"
    THEN [release(make(h, "bt", 1), "bt", 1) EXCEPT !.bt = bt]
    ELSE h

\* a line of stderr that is no line of a stack trace
Line(text) == [line |-> text, i |-> 0, name |-> <<>>]

\* the message a failed call of the API function `call' leaves in the context,
\* as a line of stderr
ErrMsg(call) == [line |-> "errmsg", i |-> 0, name |-> <<call>>]

\* buf = spn_read_text_file(fname); the file's text is drawn from T
RsfRead(T) ==
    /\ rs.pc = "read"
    /\ \E readable \in BOOLEAN, text \in T :
          IF readable
          THEN /\ rs' = [rs EXCEPT !.pc = "load", !.buf = text, !.bufst = "live"]
               /\ heap' = make(heap, "buf", 1)
               /\ UNCHANGED <<errout, failed>>
          ELSE /\ rs' = [rs EXCEPT !.pc = "done", !.bufst = "null", !.ret = -1]
               /\ errout' = Append(errout, Line("io_error"))
               /\ failed' = TRUE
               /\ heap' = heap
    /\ UNCHANGED <<argv, m, rf, ra, re, cf, df, da, ctx_err, out, disVars, vm>>

\* the shebang test, spn_ctx_loadstring(ctx, src) and free(buf)
RsfLoad ==
    /\ rs.pc = "load"
    /\ LET off == ShebangSrc(rs.buf)
       IN  IF off = -1
           THEN /\ rs' = [rs EXCEPT !.pc = "done", !.bufst = "freed", !.readst = rs.bufst,
                                     !.ret = 0]
                /\ UNCHANGED <<ctx_err, errout, failed>>
           ELSE \E compiled \in BOOLEAN, kind \in LoadErrKinds :
                  IF compiled
                  THEN /\ rs' = [rs EXCEPT !.pc = "call", !.bufst = "freed",
                                            !.readst = rs.bufst,
                                            !.src = StrFrom(rs.buf, off), !.loaded = TRUE]
                       /\ UNCHANGED <<ctx_err, errout, failed>>
                  ELSE /\ rs' = [rs EXCEPT !.pc = "done", !.bufst = "freed",
                                            !.readst = rs.bufst,
                                            !.src = StrFrom(rs.buf, off), !.loaded = TRUE,
                                            !.ret = -1]
                       /\ ctx_err' = kind
                       /\ errout' = Append(errout, ErrMsg("spn_ctx_loadstring"))
                       /\ failed' = TRUE
    /\ heap' = release(heap, "buf", 1)
    /\ UNCHANGED <<argv, m, rf, ra, re, cf, df, da, out, disVars, vm>>

\* the arguments array, spn_ctx_callfunc and the report of its error
RsfCall ==
    /\ rs.pc = "call"
    /\ \E err \in {0} \cup ApiErrs :
          LET argc == Len(rs.argv)
              made == make(make(heap, "vals", 1), "argval", argc)
              freed == release(release(made, "argval", argc), "vals", 1)
          IN
          /\ rs' = [rs EXCEPT !.pc = "done", !.vals = rs.argv, !.called = TRUE, !.ret = err]
          /\ IF err # 0
             THEN \E bt \in Backtraces :
                  /\ ctx_err' = "runtime"
                  /\ errout' = errout \o <<ErrMsg("spn_ctx_callfunc")>>
                                      \o print_stacktrace_if_needed(ctx_err', bt)
                  /\ heap' = trace_heap(freed, ctx_err', bt)
                  /\ failed' = TRUE
             ELSE /\ heap' = freed
                  /\ UNCHANGED <<ctx_err, errout, failed>>
    /\ UNCHANGED <<argv, m, rf, ra, re, cf, df, da, out, disVars, vm>>

-----------------------------------------------------------------------------
(* Command line options *)

N_CMDS == 5
N_FLAGS == 2
N_ARGS == N_CMDS + N_FLAGS

CMDS_MASK == 255
FLAGS_MASK == 65280

CMD_HELP == 1
CMD_EXECUTE == 2
CMD_COMPILE == 4
CMD_DISASM == 8
CMD_DUMPAST == 16
FLAG_PRINTNIL == 256
FLAG_PRINTRET == 512

\* the table `args' of process_args
args_table ==
    << [shopt |-> <<"-", "h">>, lnopt |-> <<"-", "-", "h", "e", "l", "p">>,
        mask |-> CMD_HELP],
       [shopt |-> <<"-", "e">>, lnopt |-> <<"-", "-", "e", "x", "e", "c", "u", "t", "e">>,
        mask |-> CMD_EXECUTE],
       [shopt |-> <<"-", "c">>, lnopt |-> <<"-", "-", "c", "o", "m", "p", "i", "l", "e">>,
        mask |-> CMD_COMPILE],
       [shopt |-> <<"-", "d">>, lnopt |-> <<"-", "-", "d", "i", "s", "a", "s", "m">>,
        mask |-> CMD_DISASM],
       [shopt |-> <<"-", "a">>, lnopt |-> <<"-", "-", "d", "u", "m", "p", "-", "a", "s", "t">>,
        mask |-> CMD_DUMPAST],
       [shopt |-> <<"-", "n">>, lnopt |-> <<"-", "-", "p", "r", "i", "n", "t", "-", "n", "i", "l">>,
        mask |-> FLAG_PRINTNIL],
       [shopt |-> <<"-", "t">>, lnopt |-> <<"-", "-", "p", "r", "i", "n", "t", "-", "r", "e", "t">>,
        mask |-> FLAG_PRINTRET] >>

\* the inner loop of process_args: the mask of the first entry from j on whose
\* short or long option is `arg', 0 when there is none
RECURSIVE lookup_arg(_, _)
lookup_arg(arg, j) ==
    IF j > N_ARGS THEN 0
    ELSE IF arg = args_table[j].shopt \/ arg = args_table[j].lnopt
         THEN args_table[j].mask
         ELSE lookup_arg(arg, j + 1)

\* process_args with `opts = arg' for `opts |= arg'
RECURSIVE process_args_from_overwriting(_, _, _)
process_args_from_overwriting(av, i, opts) ==
    IF i < Len(av)
    THEN LET arg == lookup_arg(av[i + 1], 1)
         IN  IF arg = 0
             THEN [opts |-> opts, pos |-> i]
             ELSE process_args_from_overwriting(av, i + 1, arg)
    ELSE [opts |-> opts, pos |-> i]

\* process_args going on after the first argument that is no option, with
\* *pos left at that argument
RECURSIVE process_args_from_skipping(_, _, _)
process_args_from_skipping(av, i, opts) ==
    IF i < Len(av)
    THEN LET arg == lookup_arg(av[i + 1], 1)
         IN  IF arg = 0
             THEN [opts |-> process_args_from_skipping(av, i + 1, opts).opts, pos |-> i]
             ELSE process_args_from_skipping(av, i + 1, BitOr(opts, arg))
    ELSE [opts |-> opts, pos |-> i]

\* the outer loop of process_args from index i (0-based, as in C) with the
\* options `opts' collected so far: the record of the returned mask and *pos
RECURSIVE process_args_from(_, _, _)
process_args_from(av, i, opts) ==
    IF i < Len(av)
    THEN LET arg == lookup_arg(av[i + 1], 1)
         IN  IF arg = 0
             THEN [opts |-> opts, pos |-> i]
             ELSE process_args_from(av, i + 1, BitOr(opts, arg))
    ELSE [opts |-> opts, pos |-> i]

process_args(av) == process_args_from(av, 1, 0)

\* the arguments argv[pos..argc-1], as the vector &argv[pos] of argc - pos entries
ArgsFrom(av, pos) == SubSeq(av, pos + 1, Len(av))

-----------------------------------------------------------------------------
(* run_file *)

RfIdle ==
    [pc |-> "idle", fname |-> <<>>, argv |-> <<>>, status |-> EXIT_SUCCESS,
     kind |-> "unset", ran |-> FALSE, vals |-> <<>>]

EXT_SPN == <<".", "s", "p", "n">>
EXT_SPO == <<".", "s", "p", "o">>

\* endswith searching the whole of haystack
endswith_anywhere(haystack, needle) ==
    IF Len(haystack) < Len(needle) THEN 0
    ELSE IF strstr(haystack, needle) # -1 THEN 1 ELSE 0

endswith(haystack, needle) ==
    LET hsl == Len(haystack)
        ndl == Len(needle)
    IN  IF hsl < ndl THEN 0
        ELSE IF strstr(StrFrom(haystack, hsl - ndl), needle) # -1 THEN 1 ELSE 0

\* kinds of error a failed spn_ctx_execobjfile leaves in the context
ObjErrKinds == {"generic", "runtime"}

\* run_file up to the call of run_script_file, or to its end for an object
\* file and for a name with another extension; spn_ctx_execobjfile(ctx, fname,
\* NULL) is given no arguments for the program: `ran' and `vals' record the call
\* and the (empty) argument vector of the program
RunFile ==
    /\ rf.pc = "start"
    /\ IF endswith(rf.fname, EXT_SPN) # 0
       THEN /\ rf' = [rf EXCEPT !.pc = "script", !.kind = "source"]
            /\ rs' = [RsIdle EXCEPT !.pc = "read", !.argv = rf.argv]
            /\ heap' = make(heap, "ctx", 1)
            /\ UNCHANGED <<ctx_err, errout, failed>>
       ELSE IF endswith(rf.fname, EXT_SPO) # 0
       THEN \E err \in {0} \cup ApiErrs :
              /\ rs' = rs
              /\ IF err # 0
                 THEN \E kind \in ObjErrKinds, bt \in Backtraces :
                      /\ rf' = [rf EXCEPT !.pc = "done", !.kind = "object", !.ran = TRUE,
                                          !.vals = <<>>, !.status = EXIT_FAILURE]
                      /\ ctx_err' = kind
                      /\ errout' = errout \o <<ErrMsg("spn_ctx_execobjfile")>>
                                          \o print_stacktrace_if_needed(ctx_err', bt)
                      /\ heap' = release(trace_heap(make(heap, "ctx", 1), ctx_err', bt),
                                         "ctx", 1)
                      /\ failed' = TRUE
                 ELSE /\ rf' = [rf EXCEPT !.pc = "done", !.kind = "object", !.ran = TRUE,
                                          !.vals = <<>>]
                      /\ heap' = release(make(heap, "ctx", 1), "ctx", 1)
                      /\ UNCHANGED <<ctx_err, errout, failed>>
       ELSE /\ rf' = [rf EXCEPT !.pc = "done", !.kind = "invalid", !.status = EXIT_FAILURE]
            /\ rs' = rs
            /\ errout' = Append(errout, Line("invalid_extension"))
            /\ heap' = release(make(heap, "ctx", 1), "ctx", 1)
            /\ failed' = TRUE
            /\ UNCHANGED ctx_err
    /\ UNCHANGED <<argv, m, ra, re, cf, df, da, out, disVars, vm>>

\* run_file dropping what run_script_file returned
RunFileRet_dropping ==
    /\ rf.pc = "script"
    /\ rs.pc = "done"
    /\ rf' = [rf EXCEPT !.pc = "done"]
    /\ rs' = [rs EXCEPT !.pc = "idle"]
    /\ heap' = release(heap, "ctx", 1)
    /\ UNCHANGED <<argv, m, ra, re, cf, df, da, ctx_err, errout, out, failed, disVars, vm>>

\* run_file after run_script_file has returned
RunFileRet ==
    /\ rf.pc = "script"
    /\ rs.pc = "done"
    /\ rf' = [rf EXCEPT !.pc = "done",
                        !.status = IF rs.ret # 0 THEN EXIT_FAILURE ELSE rf.status]
    /\ rs' = [rs EXCEPT !.pc = "idle"]
    /\ heap' = release(heap, "ctx", 1)
    /\ UNCHANGED <<argv, m, ra, re, cf, df, da, ctx_err, errout, out, failed, disVars, vm>>

-----------------------------------------------------------------------------
(* run_args *)

\* `ran' is the arguments given to spn_ctx_execstring so far, in order, and
\* `printed' the indexes of the arguments whose result was printed
RaIdle ==
    [pc |-> "idle", argv |-> <<>>, args |-> 0, i |-> 0, status |-> EXIT_SUCCESS,
     ran |-> <<>>, printed |-> <<>>]

\* kinds of error a failed spn_ctx_execstring leaves in the context
ExecErrKinds == {"syntax", "semantic", "runtime"}

\* run_args printing the result whatever the flags
run_args_prints_always(args) == TRUE

\* whether run_args prints the result of an argument that succeeded
run_args_prints(args) == BitAnd(args, FLAG_PRINTRET) # 0

\* one iteration of the loop of run_args, or its end.  The context is made
\* before the first iteration and freed after the last.
RunArgs ==
    /\ ra.pc = "loop"
    /\ LET h0 == IF ra.i = 0 THEN make(heap, "ctx", 1) ELSE heap
       IN
       IF ra.i < Len(ra.argv)
       THEN \E err \in {0} \cup ApiErrs :
              IF err # 0
              THEN \E kind \in ExecErrKinds, bt \in Backtraces :
                   /\ ra' = [ra EXCEPT !.pc = "done", !.status = EXIT_FAILURE,
                                       !.ran = Append(ra.ran, ra.argv[ra.i + 1])]
                   /\ ctx_err' = kind
                   /\ errout' = errout \o <<ErrMsg("spn_ctx_execstring")>>
                                       \o print_stacktrace_if_needed(ctx_err', bt)
                   /\ heap' = release(trace_heap(h0, ctx_err', bt), "ctx", 1)
                   /\ failed' = TRUE
                   /\ out' = out
              ELSE /\ ra' = [ra EXCEPT !.i = ra.i + 1,
                                       !.ran = Append(ra.ran, ra.argv[ra.i + 1]),
                                       !.printed = IF run_args_prints(ra.args)
                                                   THEN Append(ra.printed, ra.i)
                                                   ELSE ra.printed]
                   /\ out' = IF run_args_prints(ra.args)
                             THEN Append(out, "value") ELSE out
                   /\ heap' = release(make(h0, "val", 1), "val", 1)
                   /\ UNCHANGED <<ctx_err, errout, failed>>
       ELSE /\ ra' = [ra EXCEPT !.pc = "done"]
            /\ heap' = release(h0, "ctx", 1)
            /\ UNCHANGED <<ctx_err, errout, failed, out>>
    /\ UNCHANGED <<argv, m, rf, rs, re, cf, df, da, disVars, vm>>

-----------------------------------------------------------------------------
(* enter_repl *)

NoLine ==
    [calls |-> <<>>, stmt |-> "none", msgs |-> <<>>, value |-> "none", printed |-> <<>>,
     at |-> 0]

\* `line' is what the last line read came to: the API calls made for it, in
\* order, how the statement ended ("ok" or the error kind), the error messages
\* printed for it, the value it came to ("nil", "value", or "none" when it
\* failed), what of it was printed and the length of stderr before it
ReIdle ==
    [pc |-> "idle", args |-> 0, session_no |-> 1, status |-> EXIT_SUCCESS, line |-> NoLine]

\* what one line of input comes to:
\*   "ok_nil", "ok_value"   the statement ran and returned nil, or a value
\*   "runtime"              the statement failed at run time
\*   "no_expr"              the statement and the expression failed to compile
\*   "expr_runtime"         the expression compiled and failed at run time
\*   "expr_nil",            the expression compiled and ran, and its value is
\*   "expr_value"           nil, or another value
LineOutcomes ==
    {"ok_nil", "ok_value", "runtime", "no_expr", "expr_runtime", "expr_nil", "expr_value"}

\* the message enter_repl prints when the line compiles neither as a statement
\* nor as an expression, taking the context's message
repl_message_of_context(orig_errmsg, errmsg) == errmsg

\* the message enter_repl prints when the line compiles neither as a statement
\* nor as an expression: orig_errmsg is the copy of the statement's message,
\* errmsg the message in the context after spn_ctx_compile_expr
repl_message(orig_errmsg, errmsg) == orig_errmsg

\* the result of a statement is printed when it is not nil or -n is given
repl_prints_result(isnil, args) == ~isnil \/ BitAnd(args, FLAG_PRINTNIL) # 0

\* one iteration of the loop of enter_repl: a line is read and evaluated, or
\* the input has ended; at most MaxLines lines are read.  The context is made
\* before the first iteration and freed after the last.
ReplLine ==
    /\ re.pc = "loop"
    /\ \E eof \in BOOLEAN :
         LET h0 == IF re.session_no = 1 THEN make(heap, "ctx", 1) ELSE heap
             val(h) == release(make(h, "val", 1), "val", 1)
             orig(h) == release(make(h, "orig_errmsg", 1), "orig_errmsg", 1)
             line(calls, stmt, msgs, printed) ==
                 [calls |-> calls, stmt |-> stmt, msgs |-> msgs,
                  value |-> "none", printed |-> printed, at |-> Len(errout)]
             result(l, v) == [l EXCEPT !.value = v]
             next(l) == [re EXCEPT !.session_no = re.session_no + 1, !.line = l]
         IN
         /\ ~eof => re.session_no <= MaxLines
         /\ IF eof
            THEN /\ re' = [re EXCEPT !.pc = "done", !.status = EXIT_SUCCESS]
                 /\ out' = Append(out, "newline")
                 /\ heap' = release(h0, "ctx", 1)
                 /\ UNCHANGED <<ctx_err, errout, failed>>
            ELSE \E outcome \in LineOutcomes :
                 CASE outcome = "ok_nil" ->
                        LET shown == IF repl_prints_result(TRUE, re.args)
                                     THEN <<"nil">> ELSE <<>>
                        IN  /\ re' = next(result(line(<<"spn_ctx_execstring">>, "ok", <<>>,
                                                      shown), "nil"))
                            /\ out' = out \o shown
                            /\ heap' = val(h0)
                            /\ UNCHANGED <<ctx_err, errout, failed>>
                   [] outcome = "ok_value" ->
                        LET shown == IF repl_prints_result(FALSE, re.args)
                                     THEN <<"value">> ELSE <<>>
                        IN  /\ re' = next(result(line(<<"spn_ctx_execstring">>, "ok", <<>>,
                                                      shown), "value"))
                            /\ out' = out \o shown
                            /\ heap' = val(h0)
                            /\ UNCHANGED <<ctx_err, errout, failed>>
                   [] outcome = "runtime" ->
                        \E bt \in Backtraces :
                        LET msg == ErrMsg("spn_ctx_execstring")
                        IN  /\ re' = next(line(<<"spn_ctx_execstring">>, "runtime",
                                               <<msg>>, <<>>))
                            /\ ctx_err' = "runtime"
                            /\ errout' = errout \o <<msg>>
                                                \o print_stacktrace_if_needed(ctx_err', bt)
                            /\ heap' = trace_heap(h0, ctx_err', bt)
                            /\ failed' = TRUE
                            /\ out' = out
                   [] outcome = "no_expr" ->
                        \E kind \in LoadErrKinds, kind2 \in LoadErrKinds :
                        LET msg == repl_message(ErrMsg("spn_ctx_execstring"),
                                                ErrMsg("spn_ctx_compile_expr"))
                        IN  /\ re' = next(line(<<"spn_ctx_execstring", "spn_ctx_compile_expr">>,
                                               kind, <<msg>>, <<>>))
                            /\ ctx_err' = kind2
                            /\ errout' = Append(errout, msg)
                            /\ heap' = orig(h0)
                            /\ failed' = TRUE
                            /\ out' = out
                   [] outcome = "expr_runtime" ->
                        \E kind \in LoadErrKinds, bt \in Backtraces :
                        LET msg == ErrMsg("spn_ctx_callfunc")
                        IN  /\ re' = next(line(<<"spn_ctx_execstring", "spn_ctx_compile_expr",
                                                 "spn_ctx_callfunc">>, kind, <<msg>>, <<>>))
                            /\ ctx_err' = "runtime"
                            /\ errout' = errout \o <<msg>>
                                                \o print_stacktrace_if_needed(ctx_err', bt)
                            /\ heap' = trace_heap(orig(h0), ctx_err', bt)
                            /\ failed' = TRUE
                            /\ out' = out
                   [] outcome \in {"expr_nil", "expr_value"} ->
                        \E kind \in LoadErrKinds :
                        LET shown == IF outcome = "expr_nil" THEN <<"= nil">>
                                     ELSE <<"= value">>
                        IN  /\ re' = next(result(line(<<"spn_ctx_execstring",
                                                        "spn_ctx_compile_expr",
                                                        "spn_ctx_callfunc">>, kind, <<>>,
                                                      shown),
                                                 IF outcome = "expr_nil" THEN "nil"
                                                 ELSE "value"))
                            /\ ctx_err' = kind
                            /\ out' = out \o shown
                            /\ heap' = val(orig(h0))
                            /\ UNCHANGED <<errout, failed>>
    /\ UNCHANGED <<argv, m, rf, rs, ra, cf, df, da, disVars, vm>>

-----------------------------------------------------------------------------
(* compile_files, disassemble_files, dump_ast_of_files *)

CfIdle == [pc |-> "idle", argv |-> <<>>, i |-> 0, status |-> EXIT_SUCCESS]
DfIdle == [pc |-> "idle", argv |-> <<>>, i |-> 0, status |-> EXIT_SUCCESS]
DaIdle == [pc |-> "idle", argv |-> <<>>, i |-> 0, status |-> EXIT_SUCCESS]

\* compile_files closing the output file only after a complete write
fclose_calls_when_written(outcome) == IF outcome = "done" THEN 1 ELSE 0

\* the calls of fclose compile_files makes for a file, by what the file came
\* to: the output file is open when fwrite has been called
fclose_calls(outcome) == IF outcome \in {"write_failed", "done"} THEN 1 ELSE 0

\* one iteration of the loop of compile_files, or its end.  The context is
\* made before the first iteration and freed after the last.
CompileFiles ==
    /\ cf.pc = "loop"
    /\ LET h0 == IF cf.i = 0 THEN make(heap, "ctx", 1) ELSE heap
           opened(outcome) == IF outcome \in {"write_failed", "done"} THEN 1 ELSE 0
           file(h, outcome) ==
               release(make(h, "outfile", opened(outcome)), "outfile", fclose_calls(outcome))
       IN
       IF cf.i < Len(cf.argv)
       THEN \E outcome \in {"load_failed", "open_failed", "write_failed", "done"},
               kind \in LoadErrKinds \cup {"generic"} :
              CASE outcome = "load_failed" ->
                     /\ cf' = [cf EXCEPT !.pc = "done", !.status = EXIT_FAILURE]
                     /\ ctx_err' = kind
                     /\ out' = out \o <<"compiling", "newline">>
                     /\ errout' = Append(errout, ErrMsg("spn_ctx_loadsrcfile"))
                     /\ heap' = release(file(h0, outcome), "ctx", 1)
                     /\ failed' = TRUE
                [] outcome = "open_failed" ->
                     /\ cf' = [cf EXCEPT !.pc = "done", !.status = EXIT_FAILURE]
                     /\ out' = Append(out, "compiling")
                     /\ errout' = Append(errout, Line("io_error"))
                     /\ heap' = release(file(h0, outcome), "ctx", 1)
                     /\ failed' = TRUE
                     /\ UNCHANGED ctx_err
                [] outcome = "write_failed" ->
                     /\ cf' = [cf EXCEPT !.pc = "done", !.status = EXIT_FAILURE]
                     /\ out' = Append(out, "compiling")
                     /\ errout' = Append(errout, Line("io_error"))
                     /\ heap' = release(file(h0, outcome), "ctx", 1)
                     /\ failed' = TRUE
                     /\ UNCHANGED ctx_err
                [] outcome = "done" ->
                     /\ cf' = [cf EXCEPT !.i = cf.i + 1]
                     /\ out' = out \o <<"compiling", "done">>
                     /\ heap' = file(h0, outcome)
                     /\ UNCHANGED <<ctx_err, errout, failed>>
       ELSE /\ cf' = [cf EXCEPT !.pc = "done"]
            /\ heap' = release(h0, "ctx", 1)
            /\ UNCHANGED <<ctx_err, errout, failed, out>>
    /\ UNCHANGED <<argv, m, rf, rs, ra, re, df, da, disVars, vm>>

\* one iteration of the loop of disassemble_files, or its end; `result' is
\* what disasm_bytecode returns for the image read
DisassembleFiles ==
    /\ df.pc = "loop"
    /\ IF df.i < Len(df.argv)
       THEN \E readable \in BOOLEAN, result \in {0, -1} :
              IF ~readable
              THEN /\ df' = [df EXCEPT !.pc = "done", !.status = EXIT_FAILURE]
                   /\ errout' = Append(errout, Line("io_error"))
                   /\ failed' = TRUE
                   /\ UNCHANGED <<out, heap>>
              ELSE IF result # 0
              THEN /\ df' = [df EXCEPT !.pc = "done", !.status = EXIT_FAILURE]
                   /\ out' = Append(out, "dump")
                   /\ errout' = Append(errout, Line("bail"))
                   /\ heap' = release(make(heap, "image", 1), "image", 1)
                   /\ failed' = TRUE
              ELSE /\ df' = [df EXCEPT !.i = df.i + 1]
                   /\ out' = out \o <<"dump", "--------">>
                   /\ heap' = release(make(heap, "image", 1), "image", 1)
                   /\ UNCHANGED <<errout, failed>>
       ELSE /\ df' = [df EXCEPT !.pc = "done"]
            /\ UNCHANGED <<errout, failed, out, heap>>
    /\ UNCHANGED <<argv, m, rf, rs, ra, re, cf, da, ctx_err, disVars, vm>>

\* one iteration of the loop of dump_ast_of_files, or its end.  The parser is
\* made before the first iteration and freed after the last.
DumpAstOfFiles ==
    /\ da.pc = "loop"
    /\ LET h0 == IF da.i = 0 THEN make(heap, "parser", 1) ELSE heap
           src(h) == release(make(h, "src", 1), "src", 1)
           ast(h) == release(make(h, "ast", 1), "ast", 1)
       IN
       IF da.i < Len(da.argv)
       THEN \E outcome \in {"read_failed", "parse_failed", "done"} :
              CASE outcome = "read_failed" ->
                     /\ da' = [da EXCEPT !.pc = "done", !.status = EXIT_FAILURE]
                     /\ errout' = Append(errout, Line("io_error"))
                     /\ heap' = release(h0, "parser", 1)
                     /\ failed' = TRUE
                     /\ out' = out
                [] outcome = "parse_failed" ->
                     /\ da' = [da EXCEPT !.pc = "done", !.status = EXIT_FAILURE]
                     /\ errout' = Append(errout, Line("parser_errmsg"))
                     /\ heap' = release(src(h0), "parser", 1)
                     /\ failed' = TRUE
                     /\ out' = out
                [] outcome = "done" ->
                     /\ da' = [da EXCEPT !.i = da.i + 1]
                     /\ out' = Append(out, "ast")
                     /\ heap' = ast(src(h0))
                     /\ UNCHANGED <<errout, failed>>
       ELSE /\ da' = [da EXCEPT !.pc = "done"]
            /\ heap' = release(h0, "parser", 1)
            /\ UNCHANGED <<errout, failed, out>>
    /\ UNCHANGED <<argv, m, rf, rs, ra, re, cf, df, ctx_err, disVars, vm>>

-----------------------------------------------------------------------------
(* main *)

MIdle == [pc |-> "idle", args |-> 0, pos |-> 0, status |-> 0, cmd |-> "none"]

\* main up to the call of the command's function, or to its end for the help
\* text and for the two errors main reports itself
Main ==
    /\ m.pc = "start"
    /\ IF Len(argv) < 1
       THEN /\ m' = [m EXCEPT !.pc = "done", !.status = EXIT_FAILURE, !.cmd = "exit"]
            /\ errout' = Append(errout, Line("internal_error"))
            /\ UNCHANGED <<rf, ra, re, cf, df, da, out>>
       ELSE LET pa == process_args(argv)
                args == pa.opts
                pos == pa.pos
                rest == ArgsFrom(argv, pos)
                cmds == BitAnd(args, CMDS_MASK)
                call(cmd) == [m EXCEPT !.pc = "wait", !.args = args, !.pos = pos, !.cmd = cmd]
            IN  CASE cmds = 0 /\ pos = Len(argv) ->
                       /\ m' = call("enter_repl")
                       /\ re' = [ReIdle EXCEPT !.pc = "loop", !.args = args]
                       /\ out' = Append(out, "version")
                       /\ UNCHANGED <<rf, ra, cf, df, da, errout>>
                  [] cmds = 0 /\ pos # Len(argv) ->
                       /\ m' = call("run_file")
                       /\ rf' = [RfIdle EXCEPT !.pc = "start", !.fname = argv[pos + 1],
                                               !.argv = rest]
                       /\ UNCHANGED <<ra, re, cf, df, da, errout, out>>
                  [] cmds = CMD_HELP ->
                       /\ m' = [call("show_help") EXCEPT !.pc = "done",
                                                         !.status = EXIT_SUCCESS]
                       /\ out' = Append(out, "help")
                       /\ UNCHANGED <<rf, ra, re, cf, df, da, errout>>
                  [] cmds = CMD_EXECUTE ->
                       /\ m' = call("run_args")
                       /\ ra' = [RaIdle EXCEPT !.pc = "loop", !.argv = rest, !.args = args]
                       /\ UNCHANGED <<rf, re, cf, df, da, errout, out>>
                  [] cmds = CMD_COMPILE ->
                       /\ m' = call("compile_files")
                       /\ cf' = [CfIdle EXCEPT !.pc = "loop", !.argv = rest]
                       /\ out' = Append(out, "version")
                       /\ UNCHANGED <<rf, ra, re, df, da, errout>>
                  [] cmds = CMD_DISASM ->
                       /\ m' = call("disassemble_files")
                       /\ df' = [DfIdle EXCEPT !.pc = "loop", !.argv = rest]
                       /\ out' = Append(out, "version")
                       /\ UNCHANGED <<rf, ra, re, cf, da, errout>>
                  [] cmds = CMD_DUMPAST ->
                       /\ m' = call("dump_ast_of_files")
                       /\ da' = [DaIdle EXCEPT !.pc = "loop", !.argv = rest]
                       /\ out' = Append(out, "version")
                       /\ UNCHANGED <<rf, ra, re, cf, df, errout>>
                  [] OTHER ->
                       /\ m' = [call("none") EXCEPT !.pc = "done", !.status = EXIT_FAILURE]
                       /\ errout' = Append(errout, Line("internal_inconsistency"))
                       /\ UNCHANGED <<rf, ra, re, cf, df, da, out>>
    /\ UNCHANGED <<argv, rs, ctx_err, failed, heap, disVars, vm>>

\* the status the function main called has returned with
CalleeDone ==
    CASE m.cmd = "enter_repl" -> re.pc = "done"
      [] m.cmd = "run_file" -> rf.pc = "done"
      [] m.cmd = "run_args" -> ra.pc = "done"
      [] m.cmd = "compile_files" -> cf.pc = "done"
      [] m.cmd = "disassemble_files" -> df.pc = "done"
      [] m.cmd = "dump_ast_of_files" -> da.pc = "done"
      [] OTHER -> FALSE

CalleeStatus ==
    CASE m.cmd = "enter_repl" -> re.status
      [] m.cmd = "run_file" -> rf.status
      [] m.cmd = "run_args" -> ra.status
      [] m.cmd = "compile_files" -> cf.status
      [] m.cmd = "disassemble_files" -> df.status
      [] m.cmd = "dump_ast_of_files" -> da.status
      [] OTHER -> 0

\* main after the command's function has returned: `status' is what it returned
MainRet ==
    /\ m.pc = "wait"
    /\ CalleeDone
    /\ m' = [m EXCEPT !.pc = "done", !.status = CalleeStatus]
    /\ UNCHANGED <<argv, rf, rs, ra, re, cf, df, da, ctx_err, errout, out, failed, heap,
                   disVars, vm>>

-----------------------------------------------------------------------------
(* Lazy resolution of global symbols by the virtual machine *)

\* the names of global symbols and the values of registers and globals; nil
\* is the value of a register that was never written
GlobalNames == {"f", "g"}
VmValues == {"nil", "v1", "v2"}

\* no global of that name
Absent == "absent"

\* an entry of the local symbol table: an unresolved reference to the global
\* `name' (SPN_TFLG_PENDING), or a value
Stub(name) == [kind |-> "stub", name |-> name, val |-> "nil"]

\* a successful resolution that leaves the entry as it was
resolve_not_stored(entry, value) == entry

\* the entry a symbol stub is replaced with when its name was found
resolve(entry, value) == [kind |-> "value", name |-> entry.name, val |-> value]

\* `ins' is the instruction executed last: its opcode, its operands, whether
\* the global namespace was consulted and whether a runtime error was raised
NoIns == [op |-> "none", a |-> 0, idx |-> 0, consulted |-> FALSE, err |-> FALSE]

VmIdle == [pc |-> "idle", symtab |-> <<>>, globals |-> <<>>, regs |-> <<>>, ins |-> NoIns]

\* the local symbol tables of a loaded program: up to MaxSyms symbol stubs,
\* which refer to "f" and "g" in turn
SymbolTables ==
    {[i \in 1..n |-> Stub(IF i % 2 = 1 THEN "f" ELSE "g")] : n \in 1..MaxSyms}

\* LDSYM A symidx: loads entry symidx of the local symbol table into register
\* A; a symbol stub is looked up in the global namespace first and, when found,
\* replaced in place by the value; when not found a runtime error is raised
Ldsym ==
    /\ vm.pc = "run"
    /\ \E a \in 1..MaxRegs, idx \in 1..Len(vm.symtab) :
         LET entry == vm.symtab[idx]
             ins == [op |-> "LDSYM", a |-> a, idx |-> idx, consulted |-> FALSE, err |-> FALSE]
         IN  IF entry.kind = "stub"
             THEN LET found == vm.globals[entry.name]
                  IN  IF found # Absent
                      THEN LET resolved == resolve(entry, found)
                           IN  vm' = [vm EXCEPT !.symtab[idx] = resolved,
                                                !.regs[a] = resolved.val,
                                                !.ins = [ins EXCEPT !.consulted = TRUE]]
                      ELSE vm' = [vm EXCEPT !.ins = [ins EXCEPT !.consulted = TRUE,
                                                                !.err = TRUE]]
             ELSE vm' = [vm EXCEPT !.regs[a] = entry.val, !.ins = ins]
    /\ UNCHANGED <<cmdVars, disVars>>

\* GLBVAL A: stores register A into the global namespace under the name given
\* inline
Glbval ==
    /\ vm.pc = "run"
    /\ \E a \in 1..MaxRegs, name \in GlobalNames :
         vm' = [vm EXCEPT !.globals[name] = vm.regs[a],
                          !.ins = [NoIns EXCEPT !.op = "GLBVAL", !.a = a]]
    /\ UNCHANGED <<cmdVars, disVars>>

\* LDCONST A: loads a constant into register A
Ldconst ==
    /\ vm.pc = "run"
    /\ \E a \in 1..MaxRegs, v \in VmValues :
         vm' = [vm EXCEPT !.regs[a] = v,
                          !.ins = [NoIns EXCEPT !.op = "LDCONST", !.a = a]]
    /\ UNCHANGED <<cmdVars, disVars>>

-----------------------------------------------------------------------------
(* Machine words of a bytecode image *)

\* A word (spn_uword, 32 bits) is the integer in -2^31 .. 2^31 - 1 that has its
\* bit pattern: a pattern with the top bit set is a negative integer here, and
\* it is the value the code gets when it stores the word into an int.

MemLen == 9      \* words of memory the model follows, from the image's word 0
NestLen == 15    \* the same, for the images of nested functions

\* an address or length of Far or more lies beyond every address of the model;
\* all of them are kept as Far (they are only compared with addresses below it)
Far == 1073741824

SPN_WORD_OCTETS == 4
SizeofWord == 4      \* sizeof(spn_uword), unsigned int
SizeofLong == 8      \* sizeof(long), LP64
SizeofDouble == 8    \* sizeof(double)

\* conversion of a word to size_t or unsigned long
ZExt(w) == IF w < 0 \/ w >= Far THEN Far ELSE w

\* pointer + count, on addresses counted in words from bc
PAdd(p, n) == IF p >= Far \/ n >= Far \/ p + n >= Far THEN Far ELSE p + n

\* a + b and a - b in spn_uword arithmetic (modulo 2^32), for 0 <= b
Add32(a, b) ==
    IF a > 2147483647 - b
    THEN (a - 2147483647 - 1) + (b - 2147483647 - 1)
    ELSE a + b

Sub32(a, b) ==
    IF a < b - 2147483647 - 1
    THEN (a + 2147483647) + (2147483647 - b) + 2
    ELSE a - b

\* the fields of an instruction word
OPCODE(w) == w % 256
OPA(w) == (w \div 256) % 256
OPB(w) == (w \div 65536) % 256
OPC(w) == (w \div 16777216) % 256
OPMID(w) == (w \div 256) % 65536
OPLONG(w) == (w \div 256) % 16777216

MkIns(op, a, b, c) == op + 256 * a + 65536 * b + 16777216 * c

ROUNDUP(n, d) == (n + d - 1) \div d

\* the function header
SPN_FUNCHDR_IDX_SYMCNT == 0
SPN_FUNCHDR_IDX_BODYLEN == 1
SPN_FUNCHDR_IDX_ARGC == 2
SPN_FUNCHDR_IDX_NREGS == 3
SPN_FUNCHDR_LEN == 4

\* enum spn_vm_ins: the opcode of an instruction is its place here, from 0
spn_vm_ins ==
    << "CALL", "RET", "JMP", "JZE", "JNZ",
       "EQ", "NE", "LT", "LE", "GT", "GE",
       "ADD", "SUB", "MUL", "DIV", "MOD",
       "NEG", "INC", "DEC",
       "AND", "OR", "XOR", "SHL", "SHR",
       "BITNOT", "LOGNOT", "SIZEOF", "TYPEOF",
       "CONCAT", "LDCONST", "LDSYM", "MOV", "LDARGC",
       "NEWARR", "ARRGET", "ARRSET", "NTHARG",
       "GLBVAL", "FUNCTION", "CLOSURE", "LDUPVAL" >>

Ins(name) == (CHOOSE k \in 1..Len(spn_vm_ins) : spn_vm_ins[k] = name) - 1

SPN_INS_CALL == Ins("CALL")
SPN_INS_RET == Ins("RET")
SPN_INS_JMP == Ins("JMP")
SPN_INS_JZE == Ins("JZE")
SPN_INS_JNZ == Ins("JNZ")
SPN_INS_EQ == Ins("EQ")
SPN_INS_MOD == Ins("MOD")
SPN_INS_NEG == Ins("NEG")
SPN_INS_INC == Ins("INC")
SPN_INS_DEC == Ins("DEC")
SPN_INS_AND == Ins("AND")
SPN_INS_SHR == Ins("SHR")
SPN_INS_BITNOT == Ins("BITNOT")
SPN_INS_TYPEOF == Ins("TYPEOF")
SPN_INS_CONCAT == Ins("CONCAT")
SPN_INS_LDCONST == Ins("LDCONST")
SPN_INS_LDSYM == Ins("LDSYM")
SPN_INS_MOV == Ins("MOV")
SPN_INS_LDARGC == Ins("LDARGC")
SPN_INS_NEWARR == Ins("NEWARR")
SPN_INS_ARRGET == Ins("ARRGET")
SPN_INS_ARRSET == Ins("ARRSET")
SPN_INS_NTHARG == Ins("NTHARG")
SPN_INS_GLBVAL == Ins("GLBVAL")
SPN_INS_FUNCTION == Ins("FUNCTION")
SPN_INS_CLOSURE == Ins("CLOSURE")
SPN_INS_LDUPVAL == Ins("LDUPVAL")

\* enum spn_const_kind, enum spn_local_symbol, enum spn_upval_type
SPN_CONST_NIL == 0
SPN_CONST_TRUE == 1
SPN_CONST_FALSE == 2
SPN_CONST_INT == 3
SPN_CONST_FLOAT == 4

SPN_LOCSYM_STRCONST == 0
SPN_LOCSYM_SYMSTUB == 1
SPN_LOCSYM_FUNCDEF == 2

SPN_UPVAL_LOCAL == 0
SPN_UPVAL_OUTER == 1

MAX_FUNC_NEST == 4096

\* The words the model draws.  ALLONES is the word 0xffffffff; 97 holds the
\* bytes of the string "a" with its NUL and 1633771873 the bytes "aaaa", in
\* the host's (little endian) order.
ALLONES == -1

DataWords == {0, 1, 2, 257, 1024, 97, 1633771873, ALLONES}

\* the words of a header: lengths, and counts
LenWords == {0, 1, 3, 5, ALLONES}
CountWords == {0, 1, 2, ALLONES}

\* instruction words: every opcode with no operands, the opcode after the last
\* one, and the operands that select a payload
InsWords ==
    (0..Len(spn_vm_ins))
      \cup {MkIns(SPN_INS_CALL, 0, 0, c) : c \in {1, 4, 5}}
      \cup {MkIns(SPN_INS_LDCONST, 0, t, 0) : t \in 0..5}
      \cup {MkIns(SPN_INS_GLBVAL, n, 0, 0) : n \in {1, 3, 4}}
      \cup {MkIns(SPN_INS_CLOSURE, 0, n, 0) : n \in {1, 2}}
      \cup {ALLONES}

\* the k-th byte of a word in memory
Byte(w, k) == (w \div (256 ^ k)) % 256

HasNul(w) == \E k \in 0..(SizeofWord - 1) : Byte(w, k) = 0

FullWords == {w \in DataWords : ~HasNul(w)}
NulWords == {w \in DataWords : HasNul(w)}

\* strlen of the string that lies in the words s, the last of which has the
\* first zero byte
strlen(s) ==
    SizeofWord * (Len(s) - 1)
      + Min({k \in 0..(SizeofWord - 1) : Byte(s[Len(s)], k) = 0})

-----------------------------------------------------------------------------
(* Reading the image *)

\* The image is the words bc[0 .. len-1]; a word is chosen when the code first
\* reads it.  bc keeps the words that disasm_exec has read at or past the start
\* of the symbol table, which disasm_symtab reads again.  A read at or past
\* bc + len is outside the buffer: it ends the process or yields whatever lies
\* there.  The model follows MemWords words and no read past them.
\*
\* len, the length of the image, is used by the code in the last test of
\* disasm_symtab only, and the model chooses it there: until then a read is
\* outside the buffer for some of the lengths, and dis.len is NotYet.

NotYet == -1

Outside(x) == dis.len = NotYet \/ x >= dis.len

NoStr == [at |-> -1, enc |-> 0, words |-> <<>>, printed |-> FALSE]

LastNone ==
    [kind |-> "none", addr |-> 0, word |-> 0, res |-> "ok", name |-> "",
     opidx |-> -1, level |-> 0, str |-> NoStr, argc |-> 0, nregs |-> 0]

DisIdle ==
    [pc |-> "idle", len |-> NotYet, ip |-> 0, textlen |-> 0, symtaboff |-> 0,
     symtablen |-> 0, fnlevel |-> 0, fnend |-> <<>>, i |-> 0, nsyms |-> 0,
     ret |-> 0, badhdr |-> FALSE, family |-> "any", defs |-> <<>>]

\* The images that are drawn belong to one of three families, dis.family:
\*   "any"   every word is drawn from the alphabets above;
\*   "nest"  the instructions are RET and FUNCTION, and the lengths are such
\*           that a nested function can end inside the text, alone or together
\*           with the function around it;
\*   "deep"  MAX_FUNC_NEST - 1 functions, each the first instruction of the
\*           body of the one before and all of them ending where the text
\*           ends, and then one more instruction, the last of the text.
\* dis.defs lists the function definitions that disasm_exec has walked into,
\* from the address of the FUNCTION instruction to the end of the body; the
\* code keeps no such list.
\*
\* The entries fnend[0 .. fnlevel - 1] are kept as the runs of equal entries,
\* from fnend[0] on: [end |-> e, n |-> k] stands for k entries e.  dis.defs is
\* kept in the same way: [from |-> a, to |-> e, n |-> k] stands for k function
\* definitions walked into one after the other from the address a on, which
\* all end at e.

\* fnend[fnlevel - 1]
fnend_top(fnend) == fnend[Len(fnend)].end

\* fnend after fnend[fnlevel++] = e
fnend_push(fnend, e) ==
    IF fnend # <<>> /\ fnend[Len(fnend)].end = e
    THEN [fnend EXCEPT ![Len(fnend)].n = @ + 1]
    ELSE Append(fnend, [end |-> e, n |-> 1])

\* fnend[0 .. fnlevel - 1] after fnlevel--
fnend_pop(fnend) ==
    IF fnend[Len(fnend)].n > 1
    THEN [fnend EXCEPT ![Len(fnend)].n = @ - 1]
    ELSE SubSeq(fnend, 1, Len(fnend) - 1)

\* the list of the definitions walked into, after one more from a to e
walked_into(defs, a, e) ==
    IF defs # <<>> /\ defs[Len(defs)].to = e
    THEN [defs EXCEPT ![Len(defs)].n = @ + 1]
    ELSE Append(defs, [from |-> a, to |-> e, n |-> 1])

\* the length of the text of a "deep" image, and of the image
DeepText == (1 + SPN_FUNCHDR_LEN) * (MAX_FUNC_NEST - 1) + 1
DeepLen == SPN_FUNCHDR_LEN + DeepText

\* the words of memory the model follows
MemWords ==
    CASE dis.family = "nest" -> NestLen
      [] dis.family = "deep" -> DeepLen
      [] OTHER -> MemLen

\* the words drawn for an instruction
ImageIns ==
    CASE dis.family = "nest" -> {SPN_INS_RET, SPN_INS_FUNCTION}
      [] dis.family = "deep" ->
           IF dis.fnlevel < MAX_FUNC_NEST THEN {SPN_INS_FUNCTION}
           ELSE {SPN_INS_RET, SPN_INS_FUNCTION}
      [] OTHER -> InsWords

\* the words drawn for the BODYLEN of the header that is read next: the one
\* of the program at word 0, or the one that follows the FUNCTION at dis.ip
ImageLens ==
    CASE dis.family = "nest" -> {0, 5, 6, 11}
      [] dis.family = "deep" ->
           IF dis.pc = "start" THEN {DeepText}
           ELSE {DeepLen - (dis.ip + 1 + SPN_FUNCHDR_LEN)}
      [] OTHER -> LenWords

\* the words drawn for the first word of a symbol: the images of nested
\* functions have the word that is no symbol, or no symbol table
ImageSyms ==
    CASE dis.family = "nest" -> {ALLONES}
      [] dis.family = "deep" -> {}
      [] OTHER -> DataWords

\* the words drawn for SYMCNT, ARGC and NREGS
ImageCounts ==
    CASE dis.family = "nest" -> {0, 1}
      [] dis.family = "deep" -> {0}
      [] OTHER -> CountWords

\* the ways of reading the words at the addresses DOMAIN S, the word at x
\* being one of S[x]
FetchEach(S) ==
    (IF \A x \in DOMAIN S : x < MemWords
     THEN {[crash |-> FALSE, at |-> f] :
             f \in {g \in [DOMAIN S -> UNION {S[x] : x \in DOMAIN S}] :
                      \A x \in DOMAIN S :
                          /\ g[x] \in S[x]
                          /\ x \in DOMAIN bc => bc[x] = g[x]}}
     ELSE {})
      \cup
    (IF \E x \in DOMAIN S : Outside(x)
     THEN {[crash |-> TRUE, at |-> <<>>]}
     ELSE {})

FetchAt(X, A) == FetchEach([x \in X |-> A])

SeqAt(start, s) == [x \in start..(start + Len(s) - 1) |-> s[x - start + 1]]

Known(start, s) ==
    \A j \in 1..Len(s) : (start + j - 1) \in DOMAIN bc => bc[start + j - 1] = s[j]

\* the ways of strlen reading from the word at start: it reads the words up to
\* the first one that has a zero byte
StrFetch(start) ==
    {[crash |-> FALSE, words |-> s] :
        s \in {t \in UNION {{pre \o <<w>> : pre \in [1..(k - 1) -> FullWords], w \in NulWords} :
                              k \in 1..(MemWords - start)} : Known(start, t)}}
      \cup
    (IF \E k \in 0..(MemWords - start) :
            /\ Outside(start + k)
            /\ \E t \in [1..k -> FullWords] : Known(start, t)
     THEN {[crash |-> TRUE, words |-> <<>>]}
     ELSE {})

\* The words that disasm_exec reads at or past the start of the symbol table
\* are read again by disasm_symtab when the loop of disasm_exec can end, that
\* is, when the end of the text is an address of the model.
ReadAgain(x) ==
    /\ PAdd(SPN_FUNCHDR_LEN, dis.textlen) < Far
    /\ x >= dis.symtaboff

\* the ways of reading words that disasm_exec only prints: the value of such
\* a word changes nothing but the output, and it is drawn where it is kept
FetchPrinted(X) ==
    FetchEach([x \in X |-> IF ReadAgain(x) THEN DataWords ELSE {0}])

\* bc after the read of the words f by disasm_exec
Recorded(f) ==
    [x \in DOMAIN bc \cup {y \in DOMAIN f : ReadAgain(y)} |->
        IF x \in DOMAIN bc THEN bc[x] ELSE f[x]]

\* unsigned comparison of two words
ULess(a, b) == IF (a < 0) = (b < 0) THEN a < b ELSE b < 0

-----------------------------------------------------------------------------
(* disasm_bytecode *)

DisasmBytecode ==
    /\ dis.pc = "start"
    /\ \E f \in FetchEach((SPN_FUNCHDR_IDX_BODYLEN :> ImageLens)
                            @@ (SPN_FUNCHDR_IDX_SYMCNT :> ImageCounts)
                            @@ (SPN_FUNCHDR_IDX_NREGS :> ImageCounts)),
          word_argc \in ImageCounts :
        IF f.crash
        THEN /\ dis' = [dis EXCEPT !.pc = "crash"]
             /\ last' = [LastNone EXCEPT !.kind = "header", !.res = "crash"]
        ELSE LET symtaboff == Add32(f.at[SPN_FUNCHDR_IDX_BODYLEN], SPN_FUNCHDR_LEN)
                 symtablen == f.at[SPN_FUNCHDR_IDX_SYMCNT]
                 nregs == f.at[SPN_FUNCHDR_IDX_NREGS]
                 textlen == ZExt(Sub32(symtaboff, SPN_FUNCHDR_LEN))
             IN  /\ dis' = [dis EXCEPT !.pc = "exec",
                                       !.symtaboff = ZExt(symtaboff),
                                       !.symtablen = symtablen,
                                       !.textlen = textlen,
                                       !.ip = SPN_FUNCHDR_LEN,
                                       !.fnlevel = 1,
                                       !.fnend = fnend_push(<<>>, PAdd(SPN_FUNCHDR_LEN, textlen)),
                                       !.badhdr = ULess(nregs, word_argc)]
                 /\ last' = [LastNone EXCEPT !.kind = "header", !.level = 1,
                                             !.argc = word_argc, !.nregs = nregs]
    /\ bc' = bc
    /\ UNCHANGED drvVars

-----------------------------------------------------------------------------
(* disasm_exec *)

opnames_arith == <<"eq", "ne", "lt", "le", "gt", "ge", "add", "sub", "mul", "div", "mod">>
opnames_bitwise == <<"and", "or", "xor", "shl", "shr">>
opnames_unary == <<"bitnot", "lognot", "sizeof", "typeof">>

\* opnames[opidx]; a read outside the array yields no mnemonic of the table
NameAt(opnames, opidx) ==
    IF opidx \in 0..(Len(opnames) - 1) THEN opnames[opidx + 1] ELSE "?"

\* the case labels of the three groups
ArithOps == {Ins(n) : n \in {"EQ", "NE", "LT", "LE", "GT", "GE", "ADD", "SUB", "MUL", "DIV", "MOD"}}
BitwiseOps == {Ins(n) : n \in {"AND", "OR", "XOR", "SHL", "SHR"}}
UnaryOps == {Ins(n) : n \in {"BITNOT", "LOGNOT", "SIZEOF", "TYPEOF"}}

opidx_arith_from_one(opcode) == opcode - SPN_INS_EQ + 1

opidx_arith(opcode) == opcode - SPN_INS_EQ
opidx_bitwise(opcode) == opcode - SPN_INS_AND
opidx_unary(opcode) == opcode - SPN_INS_BITNOT

\* the opcodes that have no inline payload, and what is printed first for them
PlainOps ==
    {SPN_INS_RET, SPN_INS_NEG, SPN_INS_INC, SPN_INS_DEC, SPN_INS_CONCAT,
     SPN_INS_LDSYM, SPN_INS_MOV, SPN_INS_LDARGC, SPN_INS_NEWARR, SPN_INS_ARRGET,
     SPN_INS_ARRSET, SPN_INS_NTHARG, SPN_INS_LDUPVAL}
      \cup ArithOps \cup BitwiseOps \cup UnaryOps

PlainOpidx(opcode) ==
    CASE opcode \in ArithOps -> opidx_arith(opcode)
      [] opcode \in BitwiseOps -> opidx_bitwise(opcode)
      [] opcode \in UnaryOps -> opidx_unary(opcode)
      [] OTHER -> -1

PlainName(opcode) ==
    CASE opcode = SPN_INS_RET -> "ret"
      [] opcode \in ArithOps -> NameAt(opnames_arith, opidx_arith(opcode))
      [] opcode = SPN_INS_NEG -> "neg"
      [] opcode = SPN_INS_INC -> "inc"
      [] opcode = SPN_INS_DEC -> "dec"
      [] opcode \in BitwiseOps -> NameAt(opnames_bitwise, opidx_bitwise(opcode))
      [] opcode \in UnaryOps -> NameAt(opnames_unary, opidx_unary(opcode))
      [] opcode = SPN_INS_CONCAT -> "concat"
      [] opcode = SPN_INS_LDSYM -> "ld"
      [] opcode = SPN_INS_MOV -> "mov"
      [] opcode = SPN_INS_LDARGC -> "ld"
      [] opcode = SPN_INS_NEWARR -> "ld"
      [] opcode = SPN_INS_ARRGET -> "arrget"
      [] opcode = SPN_INS_ARRSET -> "arrset"
      [] opcode = SPN_INS_NTHARG -> "getarg"
      [] opcode = SPN_INS_LDUPVAL -> "ldupval"

\* the words that hold the argument indices of a call: nth_arg_idx(ip, i)
\* reads a byte of the word ip[i / SPN_WORD_OCTETS]
ArgWords(ip, argc) == {ip + (k \div SPN_WORD_OCTETS) : k \in 0..(argc - 1)}

call_skip_unrounded(argc) == argc

\* the words skipped after a call
call_skip(argc) == ROUNDUP(argc, SPN_WORD_OCTETS)

str_mismatch_shorter(namelen, reallen) == namelen < reallen

\* the test of an encoded length against strlen
str_mismatch(namelen, reallen) == namelen # reallen

ValidUpval(w) == OPCODE(w) \in {SPN_UPVAL_LOCAL, SPN_UPVAL_OUTER}

\* the end of an iteration of the loop of disasm_exec, or of the function:
\* r.res is "ok" after the break of the switch, "bail" at a return -1, and
\* "crash" when a read has ended the process
ExecTo(r) ==
    /\ dis' = [dis EXCEPT !.pc = CASE r.res = "ok" -> "exec"
                                    [] r.res = "bail" -> "done"
                                    [] OTHER -> "crash",
                          !.ip = r.ip,
                          !.fnlevel = r.fnlevel,
                          !.fnend = r.fnend,
                          !.defs = r.defs,
                          !.ret = IF r.res = "bail" THEN -1 ELSE @,
                          !.badhdr = @ \/ r.bad]
    /\ bc' = Recorded(r.reads)
    /\ last' = [kind |-> "ins", addr |-> dis.ip, word |-> r.ins, res |-> r.res,
                name |-> r.name, opidx |-> r.opidx, level |-> r.fnlevel,
                str |-> r.str, argc |-> r.argc, nregs |-> r.nregs]

DisasmExec ==
    /\ dis.pc = "exec"
    /\ dis.ip < PAdd(SPN_FUNCHDR_LEN, dis.textlen)
    /\ \E f \in FetchAt({dis.ip}, ImageIns) :
        LET ins == IF f.crash THEN 0 ELSE f.at[dis.ip]
            opcode == OPCODE(ins)
            ip == dis.ip + 1
            pop == dis.ip = fnend_top(dis.fnend)
            popped == IF pop THEN dis.fnlevel - 1 ELSE dis.fnlevel
            fnlevel == IF opcode = SPN_INS_FUNCTION THEN popped + 1 ELSE popped
            base == [ins |-> ins, res |-> "ok", ip |-> ip, fnlevel |-> fnlevel,
                     fnend |-> IF pop THEN fnend_pop(dis.fnend) ELSE dis.fnend,
                     reads |-> <<>>,
                     name |-> "", opidx |-> -1, str |-> NoStr, bad |-> FALSE,
                     argc |-> 0, nregs |-> 0, defs |-> dis.defs]
            died == [base EXCEPT !.res = "crash", !.ip = dis.ip,
                                 !.fnlevel = dis.fnlevel, !.fnend = dis.fnend]
        IN  IF f.crash
            THEN ExecTo([died EXCEPT !.ins = 0])
            ELSE IF dis.fnlevel >= MAX_FUNC_NEST
            THEN ExecTo([base EXCEPT !.res = "bail", !.fnlevel = dis.fnlevel,
                                     !.fnend = dis.fnend, !.name = "nesting"])
            ELSE
            CASE opcode = SPN_INS_CALL ->
                   \E p \in FetchPrinted(ArgWords(ip, OPC(ins))) :
                       IF p.crash THEN ExecTo([died EXCEPT !.name = "call"])
                       ELSE ExecTo([base EXCEPT !.name = "call", !.reads = p.at,
                                                !.ip = ip + call_skip(OPC(ins))])
              [] opcode \in {SPN_INS_JMP, SPN_INS_JZE, SPN_INS_JNZ} ->
                   \E p \in FetchPrinted({ip}) :
                       IF p.crash THEN ExecTo(died)
                       ELSE ExecTo([base EXCEPT
                                !.name = CASE opcode = SPN_INS_JMP -> "jmp"
                                           [] opcode = SPN_INS_JZE -> "jze"
                                           [] OTHER -> "jnz",
                                !.reads = p.at, !.ip = ip + 1])
              [] opcode \in PlainOps ->
                   ExecTo([base EXCEPT !.name = PlainName(opcode),
                                       !.opidx = PlainOpidx(opcode)])
              [] opcode = SPN_INS_LDCONST ->
                   LET type == OPB(ins)
                       size == IF type = SPN_CONST_INT THEN SizeofLong ELSE SizeofDouble
                       n == ROUNDUP(size, SizeofWord)
                   IN  IF type \in {SPN_CONST_NIL, SPN_CONST_TRUE, SPN_CONST_FALSE}
                       THEN ExecTo([base EXCEPT !.name = "ld"])
                       ELSE IF type \in {SPN_CONST_INT, SPN_CONST_FLOAT}
                       THEN \E p \in FetchPrinted(ip..(ip + n - 1)) :
                               IF p.crash THEN ExecTo([died EXCEPT !.name = "ld"])
                               ELSE ExecTo([base EXCEPT !.name = "ld", !.reads = p.at,
                                                        !.ip = ip + n])
                       ELSE ExecTo([base EXCEPT !.name = "ld", !.res = "bail"])
              [] opcode = SPN_INS_FUNCTION ->
                   \E p \in FetchEach((ip + SPN_FUNCHDR_IDX_BODYLEN :> ImageLens)
                                        @@ (ip + SPN_FUNCHDR_IDX_ARGC :> ImageCounts)
                                        @@ (ip + SPN_FUNCHDR_IDX_NREGS :> ImageCounts)) :
                       IF p.crash THEN ExecTo([died EXCEPT !.fnlevel = fnlevel])
                       ELSE LET bodylen == ZExt(p.at[ip + SPN_FUNCHDR_IDX_BODYLEN])
                                argc == p.at[ip + SPN_FUNCHDR_IDX_ARGC]
                                nregs == p.at[ip + SPN_FUNCHDR_IDX_NREGS]
                                hdr == [base EXCEPT
                                          !.name = "function", !.reads = p.at,
                                          !.argc = argc, !.nregs = nregs,
                                          !.bad = ULess(nregs, argc),
                                          !.fnend = fnend_push(base.fnend,
                                              PAdd(ip + SPN_FUNCHDR_LEN, bodylen)),
                                          !.defs = walked_into(dis.defs, dis.ip,
                                              PAdd(ip + SPN_FUNCHDR_LEN, bodylen))]
                            IN  IF argc > nregs
                                THEN ExecTo([hdr EXCEPT !.res = "bail"])
                                ELSE ExecTo([hdr EXCEPT !.ip = ip + SPN_FUNCHDR_LEN])
              [] opcode = SPN_INS_GLBVAL ->
                   \E s \in StrFetch(ip) :
                       IF s.crash THEN ExecTo(died)
                       ELSE LET namelen == OPMID(ins)
                                reallen == strlen(s.words)
                                nwords == ROUNDUP(namelen + 1, SizeofWord)
                                str == [at |-> ip, enc |-> namelen,
                                        words |-> s.words, printed |-> FALSE]
                                got == [base EXCEPT !.reads = SeqAt(ip, s.words)]
                            IN  IF str_mismatch(namelen, reallen)
                                THEN ExecTo([got EXCEPT !.res = "bail", !.str = str])
                                ELSE ExecTo([got EXCEPT
                                        !.name = "st", !.ip = ip + nwords,
                                        !.str = [str EXCEPT !.printed = TRUE]])
              [] opcode = SPN_INS_CLOSURE ->
                   \E k \in 0..OPB(ins) :
                     \E p \in FetchAt(ip..(ip + k - 1), DataWords) :
                       /\ ~p.crash
                       /\ \A x \in ip..(ip + k - 1) : ValidUpval(p.at[x])
                       /\ IF k = OPB(ins)
                          THEN ExecTo([base EXCEPT !.name = "closure",
                                           !.reads = p.at, !.ip = ip + k])
                          ELSE \E q \in FetchAt({ip + k}, DataWords) :
                                 IF q.crash
                                 THEN ExecTo([died EXCEPT !.name = "closure",
                                                          !.reads = p.at])
                                 ELSE /\ ~ValidUpval(q.at[ip + k])
                                      /\ ExecTo([base EXCEPT
                                            !.name = "closure", !.res = "bail",
                                            !.reads = p.at @@ q.at,
                                            !.ip = ip + k + 1])
              [] OTHER -> ExecTo([base EXCEPT !.res = "bail"])
    /\ UNCHANGED drvVars

\* the loop of disasm_exec is over: it returns 0 and disasm_bytecode calls
\* disasm_symtab(bc, symtaboff, len - symtaboff, symtablen)
DisasmExecEnd ==
    /\ dis.pc = "exec"
    /\ ~(dis.ip < PAdd(SPN_FUNCHDR_LEN, dis.textlen))
    /\ dis' = [dis EXCEPT !.pc = "symtab", !.ip = dis.symtaboff, !.i = 0,
                          !.nsyms = dis.symtablen]
    /\ last' = [LastNone EXCEPT !.kind = "symtab", !.level = dis.fnlevel]
    /\ bc' = bc
    /\ UNCHANGED drvVars

-----------------------------------------------------------------------------
(* disasm_symtab *)

\* the lengths of an image
Lens == 0..MemWords

\* the end of an iteration of the loop of disasm_symtab, or of the function
SymTo(r) ==
    /\ dis' = [dis EXCEPT !.pc = CASE r.res = "ok" -> "symtab"
                                    [] r.res = "bail" -> "done"
                                    [] OTHER -> "crash",
                          !.ip = r.ip,
                          !.i = IF r.res = "ok" THEN @ + 1 ELSE @,
                          !.ret = IF r.res = "bail" THEN -1 ELSE @]
    /\ bc' = bc
    /\ last' = [LastNone EXCEPT !.kind = "sym", !.addr = dis.ip, !.word = r.ins,
                                !.res = r.res, !.name = r.name, !.str = r.str,
                                !.level = dis.fnlevel]

\* a string of the symbol table at ip, with the encoded length explen
SymString(base, ip, explen, name) ==
    \E s \in StrFetch(ip) :
        IF s.crash THEN SymTo([base EXCEPT !.res = "crash"])
        ELSE LET len == strlen(s.words)
                 nwords == ROUNDUP(len + 1, SizeofWord)
                 str == [at |-> ip, enc |-> explen, words |-> s.words,
                         printed |-> FALSE]
             IN  IF str_mismatch(len, explen)
                 THEN SymTo([base EXCEPT !.res = "bail", !.ip = ip, !.str = str])
                 ELSE SymTo([base EXCEPT !.name = name, !.ip = ip + nwords,
                                         !.str = [str EXCEPT !.printed = TRUE]])

DisasmSymtab ==
    /\ dis.pc = "symtab"
    /\ dis.i < dis.nsyms
    /\ \E f \in FetchAt({dis.ip}, ImageSyms) :
        LET ins == IF f.crash THEN 0 ELSE f.at[dis.ip]
            kind == OPCODE(ins)
            ip == dis.ip + 1
            base == [ins |-> ins, res |-> "ok", ip |-> ip, name |-> "",
                     str |-> NoStr]
        IN  IF f.crash
            THEN SymTo([base EXCEPT !.res = "crash", !.ip = dis.ip])
            ELSE
            CASE kind = SPN_LOCSYM_STRCONST ->
                   SymString(base, ip, OPLONG(ins), "string")
              [] kind = SPN_LOCSYM_SYMSTUB ->
                   SymString(base, ip, OPLONG(ins), "global")
              [] kind = SPN_LOCSYM_FUNCDEF ->
                   \E p \in FetchAt({ip, ip + 1}, DataWords) :
                       IF p.crash THEN SymTo([base EXCEPT !.res = "crash"])
                       ELSE SymString(base, ip + 2, ZExt(p.at[ip + 1]), "function")
              [] OTHER -> SymTo([base EXCEPT !.res = "bail"])
    /\ UNCHANGED drvVars

\* after the loop: the walk has to end at bc + offset + datalen, where datalen
\* is len - offset (in size_t, so that the sum is bc + len also when offset is
\* past len)
DisasmSymtabEnd ==
    /\ dis.pc = "symtab"
    /\ ~(dis.i < dis.nsyms)
    /\ \E len \in Lens :
        LET offset == dis.symtaboff
            datalen == len - offset
        IN  dis' = [dis EXCEPT !.pc = "done",
                               !.len = len,
                               !.ret = IF dis.ip > offset + datalen THEN -1
                                       ELSE IF dis.ip < offset + datalen THEN -1
                                       ELSE 0]
    /\ last' = [LastNone EXCEPT !.kind = "end", !.level = dis.fnlevel]
    /\ bc' = bc
    /\ UNCHANGED drvVars

-----------------------------------------------------------------------------
(* Specification of the disassembler *)

DriverAtRest ==
    /\ argv = <<>>
    /\ m = MIdle
    /\ rf = RfIdle
    /\ rs = RsIdle
    /\ ra = RaIdle
    /\ re = ReIdle
    /\ cf = CfIdle
    /\ df = DfIdle
    /\ da = DaIdle
    /\ ctx_err = "none"
    /\ errout = <<>>
    /\ out = <<>>
    /\ failed = FALSE
    /\ heap = HeapIdle
    /\ vm = VmIdle

InitDisasm ==
    /\ DriverAtRest
    /\ dis = [DisIdle EXCEPT !.pc = "start"]
    /\ bc = <<>>
    /\ last = LastNone

NextDisasm ==
    \/ DisasmBytecode
    \/ DisasmExec
    \/ DisasmExecEnd
    \/ DisasmSymtab
    \/ DisasmSymtabEnd

SpecDisasm == InitDisasm /\ [][NextDisasm]_vars

\* the disassembler on the images of nested functions
InitNest ==
    /\ DriverAtRest
    /\ dis \in {[DisIdle EXCEPT !.pc = "start", !.family = f] : f \in {"nest", "deep"}}
    /\ bc = <<>>
    /\ last = LastNone

SpecNest == InitNest /\ [][NextDisasm]_vars

-----------------------------------------------------------------------------
(* Specifications of the driver *)

\* the disassembler at rest
DisAtRest ==
    /\ dis = DisIdle
    /\ bc = <<>>
    /\ last = LastNone

PROGNAME == <<"s", "p", "n">>
FILE_SPN == <<"a", ".", "s", "p", "n">>
FILE_SPO == <<"a", ".", "s", "p", "o">>
FILE_OTHER == <<"a">>

OptionStrings ==
    {args_table[j].shopt : j \in 1..N_ARGS} \cup {args_table[j].lnopt : j \in 1..N_ARGS}

ArgStrings == OptionStrings \cup {FILE_SPN, FILE_SPO, FILE_OTHER}

\* the options in their short spelling, and the file names
ShortArgStrings ==
    {args_table[j].shopt : j \in 1..N_ARGS} \cup {FILE_SPN, FILE_SPO, FILE_OTHER}

\* the argument vectors main is started with: no argv[0] at all, or argv[0]
\* and up to MaxArgs arguments, of which the first is any of ArgStrings and
\* the later ones have the short spelling when they are options
ArgVectors ==
    {<<>>} \cup
    {<<PROGNAME>> \o a :
        a \in UNION {{v \in [1..n -> ArgStrings] :
                         \A i \in 2..n : v[i] \in ShortArgStrings} : n \in 0..MaxArgs}}

\* the texts of the script files the driver as a whole is run on
DriverTexts == {<<"a">>, <<"#", "!">>, <<"#", "!", LF, "a">>}

\* the driver from main on
InitMain ==
    /\ argv \in ArgVectors
    /\ m = [MIdle EXCEPT !.pc = "start"]
    /\ rf = RfIdle /\ rs = RsIdle /\ ra = RaIdle /\ re = ReIdle
    /\ cf = CfIdle /\ df = DfIdle /\ da = DaIdle
    /\ ctx_err = "none" /\ errout = <<>> /\ out = <<>> /\ failed = FALSE
    /\ heap = HeapIdle
    /\ vm = VmIdle
    /\ DisAtRest

NextMain ==
    \/ Main
    \/ MainRet
    \/ RunFile
    \/ RunFileRet
    \/ RsfRead(DriverTexts)
    \/ RsfLoad
    \/ RsfCall
    \/ RunArgs
    \/ ReplLine
    \/ CompileFiles
    \/ DisassembleFiles
    \/ DumpAstOfFiles

SpecMain == InitMain /\ [][NextMain]_vars

\* run_script_file alone, on every text of up to MaxText characters
InitScript ==
    /\ argv = <<>>
    /\ m = MIdle
    /\ rf = RfIdle
    /\ rs = [RsIdle EXCEPT !.pc = "read", !.argv = <<FILE_SPN>>]
    /\ ra = RaIdle /\ re = ReIdle
    /\ cf = CfIdle /\ df = DfIdle /\ da = DaIdle
    /\ ctx_err = "none" /\ errout = <<>> /\ out = <<>> /\ failed = FALSE
    /\ heap = HeapIdle
    /\ vm = VmIdle
    /\ DisAtRest

NextScript ==
    \/ RsfRead(Texts)
    \/ RsfLoad
    \/ RsfCall

SpecScript == InitScript /\ [][NextScript]_vars

\* run_file alone, on every file name of up to MaxName characters
NameChars == {".", "s", "p", "n", "o", "a"}

Names == UNION {[1..n -> NameChars] : n \in 0..MaxName}

InitRunFile ==
    /\ argv = <<>>
    /\ m = MIdle
    /\ \E fname \in Names :
         rf = [RfIdle EXCEPT !.pc = "start", !.fname = fname, !.argv = <<fname>>]
    /\ rs = RsIdle
    /\ ra = RaIdle /\ re = ReIdle
    /\ cf = CfIdle /\ df = DfIdle /\ da = DaIdle
    /\ ctx_err = "none" /\ errout = <<>> /\ out = <<>> /\ failed = FALSE
    /\ heap = HeapIdle
    /\ vm = VmIdle
    /\ DisAtRest

NextRunFile ==
    \/ RunFile
    \/ RunFileRet
    \/ RsfRead(DriverTexts)
    \/ RsfLoad
    \/ RsfCall

SpecRunFile == InitRunFile /\ [][NextRunFile]_vars

\* the virtual machine alone, running a program whose local symbol table holds
\* symbol stubs only, with no global defined yet
InitVm ==
    /\ argv = <<>>
    /\ m = MIdle
    /\ rf = RfIdle /\ rs = RsIdle /\ ra = RaIdle /\ re = ReIdle
    /\ cf = CfIdle /\ df = DfIdle /\ da = DaIdle
    /\ ctx_err = "none" /\ errout = <<>> /\ out = <<>> /\ failed = FALSE
    /\ heap = HeapIdle
    /\ DisAtRest
    /\ \E symtab \in SymbolTables :
         vm = [VmIdle EXCEPT !.pc = "run", !.symtab = symtab,
                             !.globals = [name \in GlobalNames |-> Absent],
                             !.regs = [a \in 1..MaxRegs |-> "nil"]]

NextVm ==
    \/ Ldsym
    \/ Glbval
    \/ Ldconst

SpecVm == InitVm /\ [][NextVm]_vars

-----------------------------------------------------------------------------
(* Properties of the driver *)

\* whether s ends with the characters of x
HasSuffix(s, x) ==
    /\ Len(s) >= Len(x)
    /\ \A k \in 1..Len(x) : s[Len(s) - Len(x) + k] = x[k]

\* the end of the first line of a text that has a terminator: the offset of the
\* first LF or CR, or of the other of the two when it follows at once
FirstLineEnd(text) ==
    LET t == Min({i \in 0..(Len(text) - 1) : text[i + 1] \in {LF, CR}})
    IN  IF CharAt(text, t + 1) \in ({LF, CR} \ {text[t + 1]}) THEN t + 1 ELSE t

\* the text the compiler is to get for a script file
TextForCompiler(text) ==
    IF Len(text) >= 2 /\ text[1] = "#" /\ text[2] = "!"
    THEN StrFrom(text, FirstLineEnd(text) + 1)
    ELSE text

\* C1: whenever run_script_file hands a text to the compiler, it is the file's
\* text without its first line when the file starts with "#!" (the first line
\* ends with the first LF or CR, or with the pair of them), and the whole text
\* otherwise: nothing of the second or a later line is skipped.
C1_CompilerGetsAllAfterFirstLine ==
    rs.loaded => rs.src = TextForCompiler(rs.buf)

\* the number of leading arguments of av that spell an option
RECURSIVE LeadingOptions(_, _)
LeadingOptions(av, k) ==
    IF k + 1 <= Len(av) /\ av[k + 1] \in OptionStrings
    THEN LeadingOptions(av, k + 1)
    ELSE k - 1

\* the function main is to call for each command option, by its row in the
\* option table
CommandFunctions ==
    <<"show_help", "run_args", "compile_files", "disassemble_files", "dump_ast_of_files">>

\* the commands among the leading options of av
LeadingCommands(av) ==
    {CommandFunctions[j] : j \in
        {j \in 1..N_CMDS : \E i \in 1..LeadingOptions(av, 1) :
            av[i + 1] \in {args_table[j].shopt, args_table[j].lnopt}}}

\* the frames of the functions that carry out a command, by function
FramePc(cmd) ==
    CASE cmd = "enter_repl" -> re.pc
      [] cmd = "run_file" -> rf.pc
      [] cmd = "run_args" -> ra.pc
      [] cmd = "compile_files" -> cf.pc
      [] cmd = "disassemble_files" -> df.pc
      [] cmd = "dump_ast_of_files" -> da.pc

FrameFunctions ==
    {"enter_repl", "run_file", "run_args", "compile_files", "disassemble_files",
     "dump_ast_of_files"}

\* C7: with two or more distinct commands among the leading options main calls
\* no command's function, prints no help and ends with a non-zero status; with
\* exactly one command it calls that command's function and no other.
C7_CommandsAreExclusive ==
    (m.pc # "start" /\ Len(argv) >= 1) =>
        LET cmds == LeadingCommands(argv)
        IN  /\ Cardinality(cmds) >= 2 =>
                 /\ m.cmd = "none"
                 /\ m.pc = "done"
                 /\ m.status # 0
                 /\ out = <<>>
                 /\ \A f \in FrameFunctions : FramePc(f) = "idle"
            /\ Cardinality(cmds) = 1 =>
                 /\ m.cmd \in cmds
                 /\ \A f \in FrameFunctions \ cmds : FramePc(f) = "idle"
                 /\ m.cmd # "show_help" => FramePc(m.cmd) # "idle"
                 /\ m.cmd = "show_help" => out = <<"help">>

C7_TwoCommandsRefused ==
    /\ m.pc = "done"
    /\ Cardinality(LeadingCommands(argv)) >= 2
    /\ m.status # 0

\* C8: with no command among the leading options, main enters the REPL exactly
\* when no argument follows the options; otherwise it runs the first argument
\* after the options as a file, and the program run gets that argument and all
\* after it as its argument vector.
C8_FileGetsItsArguments ==
    (m.pc # "start" /\ Len(argv) >= 1 /\ LeadingCommands(argv) = {}) =>
        LET n == LeadingOptions(argv, 1)
        IN  IF n + 1 = Len(argv)
            THEN m.cmd = "enter_repl"
            ELSE /\ m.cmd = "run_file"
                 /\ rf.fname = argv[n + 2]
                 /\ rs.called => rs.vals = SubSeq(argv, n + 2, Len(argv))
                 /\ rf.ran => rf.vals = SubSeq(argv, n + 2, Len(argv))

C10_ExtensionDecides ==
    rf.pc \notin {"idle", "start"} =>
        /\ rf.kind = "source" <=> HasSuffix(rf.fname, EXT_SPN)
        /\ rf.kind = "object" <=> HasSuffix(rf.fname, EXT_SPO)
        /\ (~HasSuffix(rf.fname, EXT_SPN) /\ ~HasSuffix(rf.fname, EXT_SPO)) =>
             /\ rf.kind = "invalid"
             /\ rf.pc = "done"
             /\ rf.status = EXIT_FAILURE
             /\ ~rf.ran
             /\ rs = RsIdle

C10_ExtensionInsideName ==
    /\ rf.pc = "done"
    /\ rf.kind = "invalid"
    /\ strstr(rf.fname, EXT_SPN) # -1

\* the lines written to stderr since the last line of input was read
ErrSince(at) == SubSeq(errout, at + 1, Len(errout))

\* the error messages among the lines l of stderr, in order
RECURSIVE Messages(_)
Messages(l) ==
    IF l = <<>> THEN <<>>
    ELSE IF Head(l).line = "errmsg" THEN <<Head(l)>> \o Messages(Tail(l))
    ELSE Messages(Tail(l))

\* C11: every line of the REPL is first executed as a statement; it is compiled
\* as an expression only when the statement failed with a syntax or semantic
\* error; when that compilation fails too the message printed is the one the
\* statement left; when the expression compiles and fails at run time the
\* message printed is the one of the run; a failing line prints exactly one
\* message, and a line that succeeds prints none.
C11_ReplStatementThenExpression ==
    re.line # NoLine =>
        LET l == re.line
            printed == Messages(ErrSince(l.at))
        IN  /\ l.calls[1] = "spn_ctx_execstring"
            /\ Len(l.calls) >= 2 =>
                 /\ l.calls[2] = "spn_ctx_compile_expr"
                 /\ l.stmt \in {"syntax", "semantic"}
            /\ Len(l.calls) = 3 => l.calls[3] = "spn_ctx_callfunc"
            /\ l.stmt = "ok" => (Len(l.calls) = 1 /\ printed = <<>>)
            /\ l.stmt = "runtime" =>
                 (Len(l.calls) = 1 /\ printed = <<ErrMsg("spn_ctx_execstring")>>)
            /\ Len(l.calls) = 2 => printed = <<ErrMsg("spn_ctx_execstring")>>
            /\ Len(l.calls) = 3 =>
                 \/ printed = <<ErrMsg("spn_ctx_callfunc")>> /\ l.printed = <<>>
                 \/ printed = <<>> /\ l.printed # <<>>
            /\ printed = l.msgs
            /\ (l.stmt # "ok" /\ l.printed = <<>>) => Len(printed) = 1

\* a second line that compiled neither as a statement nor as an expression
C11_NeitherStatementNorExpression ==
    /\ re.session_no = 3
    /\ Len(re.line.calls) = 2
    /\ re.line.stmt = "semantic"
    /\ ctx_err = "syntax"
    /\ Messages(ErrSince(re.line.at)) = <<ErrMsg("spn_ctx_execstring")>>

\* the API calls whose failure is a failed execution
ExecutionCalls ==
    {"spn_ctx_loadstring", "spn_ctx_callfunc", "spn_ctx_execobjfile", "spn_ctx_execstring"}

\* the lines of the stack trace of the frames bt: the heading, then one line
\* for each frame, the innermost (index 0) first
TraceLines(bt) ==
    <<Line("Call stack:")>>
        \o [i \in 1..Len(bt) |-> [line |-> "frame", i |-> i - 1, name |-> bt[i]]]

\* a step that prints the message of a failed execution prints, after the
\* message, the heading and all frames of the vector spn_ctx_stacktrace
\* returned, in index order, and frees that vector once, when the context's
\* error kind is runtime; it prints nothing more and asks for no stack trace
\* when the kind is another
StackTraceFollows ==
    LET added == SubSeq(errout', Len(errout) + 1, Len(errout'))
    IN  (added # <<>> /\ added[1].line = "errmsg" /\ added[1].name[1] \in ExecutionCalls) =>
            IF ctx_err' = "runtime"
            THEN /\ Tail(added) = TraceLines(heap'.bt)
                 /\ heap'.bt \in Backtraces
                 /\ heap'.made["bt"] = heap.made["bt"] + 1
                 /\ heap'.freed["bt"] = heap.freed["bt"] + 1
            ELSE /\ Tail(added) = <<>>
                 /\ heap'.made["bt"] = heap.made["bt"]
                 /\ heap'.freed["bt"] = heap.freed["bt"]

\* C12: whenever the driver prints the error message of a failed execution
\* (script file, object file, -e argument, statement or expression of the
\* REPL), the stack trace follows the message if and only if the context's
\* error kind is runtime; it lists all n frames in index order 0..n-1 and the
\* vector is freed exactly once; no stack trace follows a syntax, semantic or
\* generic error.
C12_StackTraceIffRuntime == [][StackTraceFollows]_vars

\* a failed -e argument whose stack trace of MaxFrames frames has been printed
C12_TracePrinted ==
    /\ m.cmd = "run_args"
    /\ ctx_err = "runtime"
    /\ Len(errout) = MaxFrames + 2
    /\ errout[Len(errout)] =
           [line |-> "frame", i |-> MaxFrames - 1, name |-> CallChain[MaxFrames]]
    /\ heap.freed["bt"] = 1

\* C13: in the REPL the nil result of a line that was evaluated successfully,
\* as a statement or as an expression, is printed only when -n/--print-nil was
\* given, and a result that is not nil is always printed.
C13_NilPrintedOnlyWithFlag ==
    re.line # NoLine =>
        /\ re.line.value = "nil" =>
             (re.line.printed # <<>> <=> BitAnd(re.args, FLAG_PRINTNIL) # 0)
        /\ re.line.value = "value" => re.line.printed # <<>>
        /\ re.line.value = "none" => re.line.printed = <<>>

\* whether the option of row j of the option table is among the leading
\* options of av
OptionGiven(av, j) ==
    \E i \in 1..LeadingOptions(av, 1) :
        av[i + 1] \in {args_table[j].shopt, args_table[j].lnopt}

\* the number of times `text' was written to stdout
RECURSIVE Count(_, _)
Count(l, text) ==
    IF l = <<>> THEN 0
    ELSE (IF Head(l) = text THEN 1 ELSE 0) + Count(Tail(l), text)

\* C14: with -e, run_args executes the arguments after the options as source
\* strings, in argument order and in one context; the result of an argument is
\* printed if and only if -t/--print-ret was given and the argument succeeded;
\* at the first argument that fails no later argument is executed and the
\* status is failure; without a failure every argument is executed; a result
\* is released once for each argument that succeeded and never for the one
\* that failed.
C14_ArgumentsExecutedInOrder ==
    (m.cmd = "run_args" /\ ra.pc # "idle") =>
        LET rest == SubSeq(argv, LeadingOptions(argv, 1) + 2, Len(argv))
            n == Len(ra.ran)
            succeeded == IF ra.status = EXIT_FAILURE THEN n - 1 ELSE n
            print_ret == OptionGiven(argv, N_ARGS)
        IN  /\ n <= Len(rest)
            /\ ra.ran = SubSeq(rest, 1, n)
            /\ heap.made["ctx"] = (IF n > 0 \/ ra.pc = "done" THEN 1 ELSE 0)
            /\ ra.printed = (IF print_ret THEN [k \in 1..succeeded |-> k - 1] ELSE <<>>)
            /\ Count(out, "value") = Len(ra.printed)
            /\ heap.made["val"] = succeeded
            /\ heap.freed["val"] = succeeded
            /\ ra.status = EXIT_FAILURE <=> failed
            /\ ra.status = EXIT_FAILURE => ra.pc = "done"
            /\ (ra.pc = "done" /\ ra.status # EXIT_FAILURE) => n = Len(rest)

\* the second of two arguments failed after the first had succeeded
C14_SecondArgumentFailed ==
    /\ m.cmd = "run_args"
    /\ ra.pc = "done"
    /\ ra.status = EXIT_FAILURE
    /\ Len(ra.ran) = 2
    /\ heap.freed["val"] = 1

\* what a step does to entry idx of the local symbol table: an entry that
\* holds a value is never changed; an LDSYM of a symbol stub consults the
\* global namespace, on a hit replaces the entry by the value found and loads
\* it, on a miss raises a runtime error and leaves the entry and the registers
\* alone; an LDSYM of an entry that holds a value loads that value without
\* consulting the global namespace
LazyResolution(idx) ==
    LET entry == vm.symtab[idx]
        after == vm'.symtab[idx]
        ins == vm'.ins
    IN  /\ entry.kind = "value" => after = entry
        /\ (vm' # vm /\ ins.op = "LDSYM" /\ ins.idx = idx) =>
             IF entry.kind = "stub"
             THEN /\ ins.consulted
                  /\ IF vm.globals[entry.name] # Absent
                     THEN /\ after.kind = "value"
                          /\ after.val = vm.globals[entry.name]
                          /\ vm'.regs[ins.a] = vm.globals[entry.name]
                          /\ ~ins.err
                     ELSE /\ after = entry
                          /\ vm'.regs = vm.regs
                          /\ ins.err
             ELSE /\ ~ins.consulted
                  /\ vm'.regs[ins.a] = entry.val
                  /\ ~ins.err

\* C15: for every index of the local symbol table that holds a symbol stub, an
\* LDSYM of the index looks the name up in the global namespace; on a hit the
\* entry is replaced in place by the value and the value is loaded; from then
\* on every LDSYM of the index loads that value without consulting the global
\* namespace, also when the global was changed in between; on a miss a runtime
\* error is raised and the entry stays a stub.
C15_StubResolvedOnce == [][\A idx \in 1..Len(vm.symtab) : LazyResolution(idx)]_vars

\* an LDSYM of a resolved entry has loaded the value of the first resolution
\* after the global was given another value
C15_LoadedAfterGlobalChanged ==
    /\ vm.pc = "run"
    /\ vm.ins.op = "LDSYM"
    /\ ~vm.ins.consulted
    /\ vm.symtab[vm.ins.idx].kind = "value"
    /\ vm.symtab[vm.ins.idx].val = "v1"
    /\ vm.globals[vm.symtab[vm.ins.idx].name] = "v2"
    /\ vm.regs[vm.ins.a] = "v1"

\* the union of the masks of the options among the leading options of av:
\* the masks of the rows of the option table are distinct bits
RECURSIVE MaskOfLeading(_, _)
MaskOfLeading(av, j) ==
    IF j > N_ARGS THEN 0
    ELSE (IF OptionGiven(av, j) THEN args_table[j].mask ELSE 0) + MaskOfLeading(av, j + 1)

\* C16: process_args scans argv from index 1 and stops at the first argument
\* that is none of the 7 options in short or long form: the mask returned is
\* the union of the masks of argv[1..pos-1], pos is the index of the first
\* argument that is no option, 1 <= pos <= argc, pos = argc when every
\* argument is an option, and no argument at or after pos counts as an option.
C16_MaskOfLeadingOptions ==
    (m.pc # "start" /\ Len(argv) >= 1) =>
        /\ 1 <= m.pos /\ m.pos <= Len(argv)
        /\ \A i \in 1..(m.pos - 1) : argv[i + 1] \in OptionStrings
        /\ m.pos < Len(argv) => argv[m.pos + 1] \notin OptionStrings
        /\ m.pos = Len(argv) <=> (\A i \in 1..(Len(argv) - 1) : argv[i + 1] \in OptionStrings)
        /\ m.args = MaskOfLeading(argv, 1)

\* an option spelled after the first argument that is no option
C16_OptionAfterFile ==
    /\ m.pc # "start"
    /\ Len(argv) = 4
    /\ argv[2] \in OptionStrings
    /\ m.pos = 2
    /\ argv[4] \in OptionStrings
    /\ ~OptionGiven(argv, 1)
    /\ argv[4] = args_table[1].shopt

-----------------------------------------------------------------------------
(* Properties of the disassembler *)

Accepted == dis.pc = "done" /\ dis.ret = 0

Refused == dis.pc = "done" /\ dis.ret # 0

\* the number a header word stands for
Unsigned(w) == ZExt(w)

\* C2: an image that disasm_bytecode accepts has a symbol table whose walk
\* over exactly SYMCNT entries ends exactly at word index len.
C2_WalkOfSymcntEntriesEndsAtLen ==
    Accepted => /\ dis.i = Unsigned(dis.symtablen)
                /\ dis.ip = dis.len

\* the least number of words that hold n bytes
PaddedWords(n) ==
    CHOOSE k \in 0..n : /\ SizeofWord * k >= n
                        /\ \A j \in 0..n : SizeofWord * j >= n => k <= j

\* the place of the first zero byte in the bytes of the words s
NulPosition(s) ==
    Min({p \in 0..(SizeofWord * Len(s) - 1) :
            Byte(s[(p \div SizeofWord) + 1], p % SizeofWord) = 0})

StringRead == last.kind \in {"ins", "sym"} /\ last.str.at # -1

C4_AcceptedHeadersHaveArgcWithinNregs ==
    Accepted => ~dis.badhdr

\* the words of inline payload that follow the instruction word w
PayloadWords(w) ==
    LET name == IF OPCODE(w) < Len(spn_vm_ins) THEN spn_vm_ins[OPCODE(w) + 1] ELSE "?"
    IN  CASE name \in {"JMP", "JZE", "JNZ"} -> 1
          [] name = "CALL" -> PaddedWords(OPC(w))
          [] name = "LDCONST" ->
                IF OPB(w) = SPN_CONST_INT THEN PaddedWords(SizeofLong)
                ELSE IF OPB(w) = SPN_CONST_FLOAT THEN PaddedWords(SizeofDouble)
                ELSE 0
          [] name = "CLOSURE" -> OPB(w)
          [] name = "GLBVAL" -> PaddedWords(OPMID(w) + 1)
          [] name = "FUNCTION" -> SPN_FUNCHDR_LEN
          [] OTHER -> 0

InsProcessed == last.kind = "ins" /\ last.res = "ok"

\* C5: after an instruction is processed the cursor is at the first word of
\* the next instruction: it has moved by one word and the whole inline payload
\* of the instruction, so that the next word decoded is no payload word.
C5_CursorSkipsWholePayload ==
    InsProcessed => dis.ip = last.addr + 1 + PayloadWords(last.word)

\* a call with five arguments, whose indices take two words
C5_FiveArgumentsSkipped ==
    /\ InsProcessed
    /\ OPCODE(last.word) = SPN_INS_CALL
    /\ OPC(last.word) = 5
    /\ dis.ip = last.addr + 3
    /\ dis.pc = "exec"

\* the three ranges of opcodes with a name table, their sizes and mnemonics
NameRanges ==
    { [from |-> "EQ", to |-> "MOD", size |-> 11,
       names |-> <<"eq", "ne", "lt", "le", "gt", "ge", "add", "sub", "mul", "div", "mod">>],
      [from |-> "AND", to |-> "SHR", size |-> 5,
       names |-> <<"and", "or", "xor", "shl", "shr">>],
      [from |-> "BITNOT", to |-> "TYPEOF", size |-> 4,
       names |-> <<"bitnot", "lognot", "sizeof", "typeof">>] }

\* the mnemonic that names an opcode of the three ranges
MnemonicOf ==
    [EQ |-> "eq", NE |-> "ne", LT |-> "lt", LE |-> "le", GT |-> "gt", GE |-> "ge",
     ADD |-> "add", SUB |-> "sub", MUL |-> "mul", DIV |-> "div", MOD |-> "mod",
     AND |-> "and", OR |-> "or", XOR |-> "xor", SHL |-> "shl", SHR |-> "shr",
     BITNOT |-> "bitnot", LOGNOT |-> "lognot", SIZEOF |-> "sizeof",
     TYPEOF |-> "typeof"]

\* C6: for an opcode of the ranges EQ..MOD, AND..SHR and BITNOT..TYPEOF the
\* mnemonic printed is the one at index opcode - first opcode of the range in
\* the range's table, the index is within the table (11, 5 and 4 entries) and
\* the mnemonic is the one that names the opcode.
C6_MnemonicFromRangeTable ==
    \A r \in NameRanges :
        (InsProcessed /\ OPCODE(last.word) \in Ins(r.from)..Ins(r.to)) =>
            /\ last.opidx = OPCODE(last.word) - Ins(r.from)
            /\ last.opidx \in 0..(r.size - 1)
            /\ Len(r.names) = r.size
            /\ last.name = r.names[last.opidx + 1]
            /\ last.name = MnemonicOf[spn_vm_ins[OPCODE(last.word) + 1]]

\* the last opcode of the longest table
C6_ModPrinted ==
    /\ InsProcessed
    /\ OPCODE(last.word) = SPN_INS_MOD
    /\ last.opidx = 10
    /\ last.name = "mod"

-----------------------------------------------------------------------------
(* Resources of the driver's commands *)

\* C20: every command releases what it has made exactly once on every path
\* before it returns: nothing is released that is not held, the text buffer of
\* run_script_file is not read after free(buf), run_script_file has released
\* each argument value and its array when it returns, and when the function
\* of a command has returned everything made is released, the one context of
\* run_file, run_args, enter_repl and compile_files, the image of each file
\* of disassemble_files and the output files of compile_files included.
C20_ReleasedExactlyOnce ==
    /\ \A r \in Resources : heap.freed[r] <= heap.made[r]
    /\ rs.readst # "freed"
    /\ rs.loaded => rs.readst = "live"
    /\ rs.pc = "done" =>
          /\ heap.freed["buf"] = heap.made["buf"]
          /\ heap.freed["vals"] = heap.made["vals"]
          /\ heap.freed["argval"] = heap.made["argval"]
          /\ rs.called => heap.made["argval"] = Len(rs.vals)
    /\ \A cmd \in FrameFunctions :
          (m.cmd = cmd /\ FramePc(cmd) = "done") =>
              /\ \A r \in Resources : heap.freed[r] = heap.made[r]
              /\ heap.made["ctx"] =
                    (IF cmd \in {"run_file", "run_args", "enter_repl", "compile_files"}
                     THEN 1 ELSE 0)

\* compile_files has returned after the write of its first output file failed,
\* and the file it had opened is closed
C20_ClosedAfterWriteFailure ==
    /\ m.cmd = "compile_files"
    /\ cf.pc = "done"
    /\ cf.i = 0
    /\ cf.status = EXIT_FAILURE
    /\ heap.made["outfile"] = 1
    /\ heap.freed["outfile"] = 1

-----------------------------------------------------------------------------
(* Nesting of function definitions in disasm_exec *)

\* the number of entries of the runs s
RECURSIVE Entries(_)
Entries(s) == IF s = <<>> THEN 0 ELSE s[1].n + Entries(Tail(s))

\* the number of the function definitions walked into that contain the
\* instruction printed last, from their FUNCTION instruction to the last word
\* of their body (all of them begin at or before that instruction)
Enclosing ==
    Entries(SelectSeq(dis.defs, LAMBDA d : d.from <= last.addr /\ last.addr < d.to))

\* the function definitions walked into are properly nested: each lies
\* after the end of, or ends within, each of the ones that began before it
ProperlyNested ==
    \A j, k \in 1..Len(dis.defs) :
        j < k => \/ dis.defs[j].to <= dis.defs[k].from
                 \/ dis.defs[k].to <= dis.defs[j].to

\* C17: at every instruction that disasm_exec prints, the nesting level used
\* for the indentation, fnlevel - 1 after the pop and the push of that
\* instruction, is the number of nested function definitions that contain the
\* instruction: the level is back at its value of before after the end of
\* every nested function, also when two of them end at the same address.
\* (Stated for the images whose definitions are properly nested.)
C17_LevelIsNestingDepth ==
    (last.kind = "ins" /\ last.res = "ok" /\ ProperlyNested)
        => last.level - 1 = Enclosing

\* the nested function definitions that are open at the instruction at which
\* disasm_exec gave up for the nesting: the ones that contain it and, when it
\* is a FUNCTION, the one that it opens
OpenAtNestingError ==
    Enclosing
      + (IF OPCODE(last.word) = SPN_INS_FUNCTION THEN 1 ELSE 0)

\* C18: fnlevel is in 1..MAX_FUNC_NEST at every read and write of
\* fnend[fnlevel - 1], and the entry of the top level is never taken off;
\* disasm_exec fails with the nesting error only when more than
\* MAX_FUNC_NEST - 1 nested function definitions are open at once.
C18_NestingErrorBeyondLimit ==
    /\ dis.pc = "exec" =>
          /\ dis.fnlevel \in 1..MAX_FUNC_NEST
          /\ Entries(dis.fnend) = dis.fnlevel
    /\ (last.kind = "ins" /\ last.name = "nesting") =>
          OpenAtNestingError > MAX_FUNC_NEST - 1

-----------------------------------------------------------------------------
(* Reads of the disassembler and the length of the image *)

\* C19: whatever the words of the image are, no read of disasm_bytecode, of
\* disasm_exec and of disasm_symtab is outside the words 0 .. len - 1 of the
\* image, and len - symtaboff is computed only when symtaboff <= len.
C19_ReadsInsideImage ==
    /\ last.res # "crash"
    /\ last.kind = "end" => dis.symtaboff <= dis.len

=============================================================================
